---- MODULE Spec2Model ----
(***************************************************************************)
(* Model of the return-box session reconciliation engine of                *)
(* app/services/mqtt_service.py (class MQTTService) together with the      *)
(* HTTP routes that poll it and the part of the relational store that      *)
(* finalization writes to.                                                 *)
(*                                                                         *)
(* Three kinds of thread run the program.  The network-loop thread runs    *)
(* the broker callbacks one at a time, a message handler holding           *)
(* self._lock for its body.  Each CONFIRM RETURN that finalizes starts a   *)
(* thread that runs _process_finalized_return.  The event-loop thread of   *)
(* the one server process (main.py:76) runs the HTTP routes, every one of  *)
(* them an async function that never awaits, so one request at a time      *)
(* from its start to its answer.  What one thread does between two         *)
(* database round trips, or between taking and leaving the lock, is one    *)
(* step; the steps of different threads interleave.                        *)
(***************************************************************************)
EXTENDS Integers, Sequences, FiniteSets, TLC

VARIABLES
    sessions,      \* self._return_sessions: dict return_box_id -> session
    threads,       \* finalization threads started and not yet ended: <<[box, tags]>>
    is_connected,  \* self.is_connected (self.client is set once connect() ran)
    last_unlock_times, \* self._last_unlock_times: dict return_box_id -> datetime
    clock,         \* the wall clock now_gmt8() reads, in seconds
    callers,       \* per thread that runs routes: its position in send_unlock_command
    db_copy_status, \* book_copy.status by copy_id
    db_loans,      \* loan rows by loan_id
    life,          \* history: per device, the messages handled since its session was absent
    fin_calls,     \* history: per device, the tag lists _process_finalized_return was invoked with in this session lifetime
    completed_mark, \* history: per device, Len(fin_calls) when the session first became 'completed', else -1
    fin_runs,      \* history: every execution of _process_finalized_return and the copy statuses it left
    nmsgs,         \* number of broker messages handled so far
    unlock_log,    \* history: finished send_unlock_command calls and the route's answer to each
    publishes,     \* history: UNLOCK publishes the broker accepted: [box, at, topic, payload]
    ever_created,  \* history: the devices a session was ever created for
    poll_resp,     \* history: the last response of GET /api/library/return/status/{id}
    lock,          \* self._lock: the thread that holds it, or NoHolder
    loop,          \* the network-loop thread: its position in on_message ("idle", "waiting", "holding")
    pollers,       \* per thread that runs routes: its position in get_return_status ("idle", "waiting", "holding", "reading") and the device asked for
    npolls,        \* number of status requests made so far
    msg_log,       \* history: the kind of every message on_message received, in runs that trace them
    db_returns,    \* return_transaction rows by return_id: the status and the copies of the return items
    req,           \* the request the event-loop thread is in, if it is in a loan or return route: <<>> or <<[route, pc, ...]>>
    fin_open       \* _process_finalized_return calls between their first queries and their end: loop is <<>> or <<[topic, payload, read, todo]>> for the handler's call, threads maps the position of a thread in threads to its [read, todo]

vars == <<sessions, threads, is_connected, last_unlock_times, clock, callers,
          db_copy_status, db_loans, life, fin_calls, completed_mark, fin_runs,
          nmsgs, unlock_log, publishes, ever_created, poll_resp,
          lock, loop, pollers, npolls, msg_log, db_returns, fin_open, req>>

engineVars == <<sessions, threads, db_copy_status, db_loans, life, fin_calls,
                completed_mark, fin_runs, nmsgs, ever_created>>

unlockVars == <<last_unlock_times, callers, unlock_log, publishes>>

lockVars == <<lock, loop, pollers, npolls>>

----------------------------------------------------------------------------
(* Bounds of the model *)

MaxMsgs == 3       \* broker messages handled in one run
MaxCalls == 3      \* send_unlock_command calls in one run, made one after another
MaxTime == 6       \* seconds the clock runs for
MaxPollMsgs == 2   \* broker messages handled in one run that HTTP clients poll
MaxLockMsgs == 2   \* broker messages handled in one run that models the lock
MaxPolls == 1      \* status requests in one run that models the lock
MaxTraceMsgs == 2  \* broker messages received in one run that traces them
MaxMixMsgs == 3    \* broker messages handled in one run that also sends unlock commands
MaxMixCalls == 2   \* send_unlock_command calls in one run that also handles messages
MaxTopicCalls == 1 \* send_unlock_command calls in one run over every device id
MaxDeviceId == 99  \* device ids range over 1..MaxDeviceId in that run
MaxLoans == 2      \* loan rows in one run of the loan and return routes
MaxReturns == 1    \* return transactions in one run of the loan and return routes
MaxLoanMsgs == 2   \* broker messages handled in one run of the loan and return routes

(* Program constants *)

UnlockCooldownSeconds == 5

Devices == {1, 2}

(* The threads that run the HTTP routes: the event-loop thread. *)
Workers == {1}

(* Users 1 and 2 are students, user 3 is a librarian. *)
Users == {1, 2, 3}

UserRole(u) == IF u = 3 THEN "librarian" ELSE "student"

NULL == -1

(* Holders of self._lock: nobody, a thread that runs routes (its number),   *)
(* the network-loop thread, or the thread that shuts the application down.  *)
NoHolder == 0
LoopThread == 3
MainThread == 4

(* EPC tags: E1 and E2 are the tags of copies 1 and 2, X is on no copy. *)
TagLists == {<<>>, <<"E1">>, <<"E1", "E2">>, <<"E2", "X">>, <<"X">>}

CopyIds == {1, 2}
LoanIds == {1}

BookEpc(c) == IF c = 1 THEN "E1" ELSE "E2"

(* Rows of return_box: device 1 has a record, device 2 has none. *)
db_boxes == {1}

Range(s) == {s[i] : i \in 1..Len(s)}

----------------------------------------------------------------------------
(* Topics and payloads.  A topic is <prefix><token><suffix>; a token is a   *)
(* sequence of characters: 0..9 are the ASCII digits, 10 is a letter, 11 a  *)
(* whitespace character, 12 the minus sign, 13 the plus sign, 14 the        *)
(* underscore, 15 the nine letters of the word ReturnBox, and 20..29 are    *)
(* the decimal digits 0..9 of another script.  The tokens delivered are     *)
(* "01", "02", "0x" and "ReturnBox 1".                                      *)

Tokens == {<<0, 1>>, <<0, 2>>, <<0, 10>>, <<15, 11, 1>>}

(* on_connect subscribes to +/Return and +/Command. *)
Topics ==
    [prefix : {"ReturnBox"}, token : Tokens, suffix : {"/Return", "/Command"}]
    \cup [prefix : {"Other"}, token : {<<0, 1>>}, suffix : {"/Return", "/Command"}]

(* int() raising ValueError; a parsed number is [ok |-> TRUE, value |-> n]. *)
ValueError == [ok |-> FALSE, value |-> 0]

IsSpace(ch) == ch = 11

IsSign(ch) == ch \in {12, 13}

IsDigit(ch) == ch \in (0..9) \cup (20..29)

DigitValue(ch) == IF ch \in 0..9 THEN ch ELSE ch - 20

(* str.strip(), as int() applies it to its argument *)
RECURSIVE Strip(_)
Strip(tok) ==
    IF tok # <<>> /\ IsSpace(tok[1]) THEN Strip(Tail(tok))
    ELSE IF tok # <<>> /\ IsSpace(tok[Len(tok)])
    THEN Strip(SubSeq(tok, 1, Len(tok) - 1))
    ELSE tok

(* The text after an optional sign. *)
Unsigned(tok) == IF tok # <<>> /\ IsSign(tok[1]) THEN Tail(tok) ELSE tok

(* Decimal digits, with single underscores between digits only. *)
IsNumeral(tok) ==
    /\ tok # <<>>
    /\ \A i \in 1..Len(tok) :
          \/ IsDigit(tok[i])
          \/ /\ tok[i] = 14
             /\ i > 1 /\ i < Len(tok)
             /\ IsDigit(tok[i - 1]) /\ IsDigit(tok[i + 1])

RECURSIVE DigitsValue(_)
DigitsValue(tok) ==
    IF tok = <<>> THEN 0
    ELSE IF tok[Len(tok)] = 14 THEN DigitsValue(SubSeq(tok, 1, Len(tok) - 1))
    ELSE 10 * DigitsValue(SubSeq(tok, 1, Len(tok) - 1)) + DigitValue(tok[Len(tok)])

(* A parse that takes device 1 for a token that is no number. *)
ParseIntDefault(tok) ==
    IF IsNumeral(Unsigned(Strip(tok)))
    THEN [ok |-> TRUE,
          value |-> IF Strip(tok)[1] = 12 THEN 0 - DigitsValue(Unsigned(Strip(tok)))
                    ELSE DigitsValue(Unsigned(Strip(tok)))]
    ELSE [ok |-> TRUE, value |-> 1]

(* int(topic_clean): surrounding whitespace is stripped, one sign is        *)
(* allowed, then digits with single underscores between them.               *)
ParseInt(tok) ==
    IF IsNumeral(Unsigned(Strip(tok)))
    THEN [ok |-> TRUE,
          value |-> IF Strip(tok)[1] = 12 THEN 0 - DigitsValue(Unsigned(Strip(tok)))
                    ELSE DigitsValue(Unsigned(Strip(tok)))]
    ELSE ValueError

(* str.replace("ReturnBox", ""): every occurrence of the word is removed *)
RECURSIVE RemoveWord(_)
RemoveWord(tok) ==
    IF tok = <<>> THEN <<>>
    ELSE IF tok[1] = 15 THEN RemoveWord(Tail(tok))
    ELSE <<tok[1]>> \o RemoveWord(Tail(tok))

(* topic.replace(suffix, "").replace("ReturnBox", "") at lines 105 and 163, *)
(* for a topic on_message dispatched: the suffix and the leading word go,   *)
(* and with them every other occurrence of the word.                        *)
TopicClean(topic) == RemoveWord(topic.token)

(* The return_box_id the handlers read off the topic, or ValueError. *)
TopicId(topic) == ParseInt(TopicClean(topic))

(* The value of "Return" in {"Return": 5}, as the handler keeps it: no list *)
(* (len() and list() of it raise TypeError), true in a test, no tag of any  *)
(* copy.                                                                    *)
NotAList == <<"(number)">>

IsList(value) == value # NotAList

(* Payloads, by what json.loads makes of them: a JSON array of tags, a JSON   *)
(* object with the key "Return" holding one or holding a number, another    *)
(* JSON object, a JSON scalar, or text that is no JSON (the command         *)
(* literals are such text).                                                 *)
Payloads ==
    [shape : {"list", "dict_return"}, tags : TagLists, text : {"json"}]
    \cup [shape : {"dict_return_number"}, tags : {NotAList}, text : {"json"}]
    \cup [shape : {"dict_other", "scalar"}, tags : {<<>>}, text : {"json"}]
    \cup [shape : {"invalid_json"}, tags : {<<>>},
          text : {"CONFIRM RETURN", "UNLOCK", "OTHER"}]

(* json.loads and the shape test: the tag list, or dropped. *)
Accepted(payload) ==
    payload.shape \in {"list", "dict_return", "dict_return_number"}

ScanMsg(tags) == [kind |-> "scan", tags |-> tags]
ConfirmMsg == [kind |-> "confirm", tags |-> <<>>]

----------------------------------------------------------------------------
(* The persistence layer as finalization sees it *)

(* The copies query without its EPC filter. *)
MatchedCopiesUnfiltered(tags) == CopyIds

(* db.query(BookCopy).filter(BookCopy.book_epc.in_(epc_tags)).all() *)
MatchedCopies(tags) == {c \in CopyIds : BookEpc(c) \in Range(tags)}

ActiveLoans(loans, c) ==
    {l \in DOMAIN loans : loans[l].copy_id = c /\ loans[l].status = "active"}

(* db.query(Loan).filter(copy_id, status == 'active').first() *)
FirstActiveLoan(loans, c) ==
    IF ActiveLoans(loans, c) = {} THEN NULL
    ELSE CHOOSE l \in ActiveLoans(loans, c) : \A m \in ActiveLoans(loans, c) : l <= m

CloseLoans(loans, copies, now) ==
    [l \in DOMAIN loans |->
        IF \E c \in copies : FirstActiveLoan(loans, c) = l
        THEN [loans[l] EXCEPT !.return_date = now, !.status = "returned",
                              !.fine_amount = 0]
        ELSE loans[l]]

MarkReturned(status, copies) ==
    [c \in DOMAIN status |-> IF c \in copies THEN "returned" ELSE status[c]]

(* Where a finalization's persistence fails: no call raises; SessionLocal() *)
(* raises (line 207, outside the try block; a call raising and db.rollback()*)
(* raising after it at line 247 ends the same way); the copies query (210), *)
(* the box query (219), a loan query (231) or the commit (242) raises and   *)
(* is rolled back; db.close() raises in the finally block (line 249).       *)
FailPoints ==
    {"none", "SessionLocal", "copies_query", "box_query", "loan_query",
     "commit", "close"}

(* _process_finalized_return: the outcome, the store it leaves and whether  *)
(* an exception leaves the function.                                        *)
ProcessFinalizedReturn(box, tags, fails, copies, loans, now) ==
    LET same(result, raised) ==
            [result |-> result, copies |-> copies, loans |-> loans,
             raised |-> raised]
    IN
    IF tags = <<>> THEN same("no_tags", FALSE)
    ELSE IF fails = "SessionLocal" THEN same("raised", TRUE)
    ELSE IF fails = "copies_query" THEN same("rolled_back", FALSE)
    ELSE IF MatchedCopies(tags) = {} THEN same("no_copies", fails = "close")
    ELSE IF fails = "box_query" THEN same("rolled_back", FALSE)
    ELSE IF box \notin db_boxes THEN same("no_box", fails = "close")
    ELSE IF fails \in {"loan_query", "commit"} THEN same("rolled_back", FALSE)
    ELSE [result |-> "committed",
          copies |-> MarkReturned(copies, MatchedCopies(tags)),
          loans |-> CloseLoans(loans, MatchedCopies(tags), now),
          raised |-> fails = "close"]

(* db.commit() at line 242, of a session made with autoflush=False: the     *)
(* attributes the function changed on the rows it had read are written to   *)
(* the rows as they are now; everything else is left as it is now.          *)
Flush(out, read, copies, loans) ==
    [result |-> out.result, raised |-> out.raised,
     copies |-> [c \in DOMAIN copies |->
                    IF out.copies[c] # read.copies[c] THEN out.copies[c]
                    ELSE copies[c]],
     loans |-> [l \in DOMAIN loans |->
                   IF l \in DOMAIN read.loans
                   THEN [f \in DOMAIN loans[l] |->
                            IF out.loans[l][f] # read.loans[l][f]
                            THEN out.loans[l][f] ELSE loans[l][f]]
                   ELSE loans[l]]]

(* The rows a query sees now, and the time now_gmt8() gives now (line 231). *)
Stored ==
    [copies |-> db_copy_status, loans |-> db_loans, return_date |-> clock]

(* The fail points after the queries. *)
LateFailPoints == {"none", "commit", "close"}

FinRun(box, tags, fails, out) ==
    [box |-> box, tags |-> tags, persist_ok |-> fails = "none",
     result |-> out.result, copies |-> out.copies, raised |-> out.raised]

----------------------------------------------------------------------------
Init ==
    /\ sessions = <<>>
    /\ threads = <<>>
    /\ is_connected = FALSE
    /\ last_unlock_times = <<>>
    /\ clock = 0
    /\ callers = [w \in Workers |-> [pc |-> "idle", box |-> 0, now |-> 0, last |-> NULL]]
    /\ db_copy_status = [c \in CopyIds |-> IF c = 1 THEN "checked_out" ELSE "available"]
    /\ db_loans = [l \in LoanIds |->
                     [copy_id |-> 1, user_id |-> 1, status |-> "active",
                      return_date |-> NULL, fine_amount |-> 2, due_date |-> 1]]
    /\ life = [d \in Devices |-> <<>>]
    /\ fin_calls = [d \in Devices |-> <<>>]
    /\ completed_mark = [d \in Devices |-> -1]
    /\ fin_runs = <<>>
    /\ nmsgs = 0
    /\ unlock_log = <<>>
    /\ publishes = <<>>
    /\ ever_created = {}
    /\ poll_resp = [code |-> 0, box |-> 0, status |-> "", epc_tags |-> <<>>,
                    books |-> {}, had_session |-> FALSE]
    /\ lock = NoHolder
    /\ loop = "idle"
    /\ pollers = [w \in Workers |-> [pc |-> "idle", box |-> 0]]
    /\ npolls = 0
    /\ msg_log = <<>>
    /\ db_returns = <<>>
    /\ req = <<>>
    /\ fin_open = [loop |-> <<>>, threads |-> <<>>]

----------------------------------------------------------------------------
(* The message handlers (network-loop thread) *)

NewSession(status) == [epc_tags |-> <<>>, status |-> status, timestamp |-> clock]

(* dict assignment and deletion *)
PutAll(dict, key, value) == [k \in DOMAIN dict \cup {key} |-> value]

Put(dict, key, value) ==
    [k \in DOMAIN dict \cup {key} |-> IF k = key THEN value ELSE dict[k]]

Del(dict, key) == [k \in DOMAIN dict \ {key} |-> dict[k]]

(* The session's tag list after a scan message carrying epc_tags. *)
StoreTagsMerged(session, epc_tags) == session.epc_tags \o epc_tags

StoreTags(session, epc_tags) == epc_tags

(* The session's status after CONFIRM RETURN. *)
ConfirmedStatusCompleted(session) == "completed"

ConfirmedStatus(session) == "finalized"

(* Whether the confirm handler starts a finalization thread. *)
ConfirmSpawnsNever(session, new_status) == FALSE

(* list(session['epc_tags']) raises TypeError for a value that is no list,  *)
(* and the handler's except clause ends the call before the thread starts.  *)
ConfirmSpawns(session, new_status) ==
    /\ session.epc_tags # <<>> /\ new_status # "completed"
    /\ IsList(session.epc_tags)

(* Whether the scan handler runs finalization: line 138. *)
ScanFinalizesNotScanning(session) == session.status # "scanning"

ScanFinalizesAlways(session) == TRUE

ScanFinalizes(session) == session.status = "finalized"

(* The tag list the scan handler passes to finalization: line 141. *)
FinalizeTagsStale(session, epc_tags) == session.epc_tags

FinalizeTags(session, epc_tags) == epc_tags

(* len(epc_tags) at line 140 raises for a value that is no list, before    *)
(* anything is assigned; the except clause at line 157 ends the call.       *)
RaisesBeforeFinalize(session, epc_tags) ==
    ScanFinalizes(session) /\ ~IsList(epc_tags)

(* The payload is exactly CONFIRM RETURN: line 171. *)
IsCommandLiteral(payload) == payload.shape = "invalid_json"

IsConfirm(payload) == payload.text = "CONFIRM RETURN"

(* _handle_return_update, its finalization having read the rows and the    *)
(* return date in read; the session's timestamp is read when the            *)
(* finalization has ended (line 144).                                       *)
HandleReturnUpdateReading(topic, payload, fails, read) ==
    LET parsed == TopicId(topic)
        id == parsed.value
    IN
    IF parsed = ValueError \/ ~Accepted(payload)
    THEN UNCHANGED engineVars
    ELSE IF id \in DOMAIN sessions
            /\ RaisesBeforeFinalize(sessions[id], payload.tags)
    THEN /\ nmsgs' = nmsgs + 1
         /\ UNCHANGED <<sessions, threads, db_copy_status, db_loans, life,
                        fin_calls, completed_mark, fin_runs, ever_created>>
    ELSE
      LET epc_tags == payload.tags
          created == IF id \in DOMAIN sessions THEN sessions
                     ELSE Put(sessions, id, NewSession("scanning"))
          session == created[id]
          fin_tags == FinalizeTags(session, epc_tags)
          out == Flush(ProcessFinalizedReturn(id, fin_tags, fails,
                                              read.copies, read.loans,
                                              read.return_date),
                       read, db_copy_status, db_loans)
      IN
      /\ nmsgs' = nmsgs + 1
      /\ life' = [life EXCEPT ![id] = Append(@, ScanMsg(epc_tags))]
      /\ ever_created' = ever_created \cup {id}
      /\ threads' = threads
      /\ IF ScanFinalizes(session)
         THEN /\ db_copy_status' = out.copies
              /\ db_loans' = out.loans
              /\ fin_runs' = Append(fin_runs, FinRun(id, fin_tags, fails, out))
              /\ fin_calls' = [fin_calls EXCEPT ![id] = Append(@, fin_tags)]
              /\ IF out.raised
                 THEN UNCHANGED <<sessions, completed_mark>>
                 ELSE /\ completed_mark' =
                            [completed_mark EXCEPT
                               ![id] = IF @ = -1 THEN Len(fin_calls[id]) + 1 ELSE @]
                      /\ sessions' = Put(created, id,
                             [status |-> "completed",
                              epc_tags |-> StoreTags(session, epc_tags),
                              timestamp |-> clock])
         ELSE /\ UNCHANGED <<db_copy_status, db_loans, fin_runs, fin_calls,
                             completed_mark>>
              /\ sessions' = Put(created, id,
                     [session EXCEPT !.epc_tags = StoreTags(session, epc_tags),
                                     !.timestamp = clock])

(* _process_finalized_return, its persistence calls failing as fails says, *)
(* gets as far as its loan queries: tags were given, the session opened,    *)
(* the copies query found copies and the box query found the box (lines     *)
(* 203-230).                                                                *)
ReachesLoanQueries(box, tags, fails) ==
    /\ tags # <<>>
    /\ fails \notin {"SessionLocal", "copies_query", "box_query"}
    /\ MatchedCopies(tags) # {}
    /\ box \in db_boxes

(* The message is a scan whose handler calls _process_finalized_return at   *)
(* line 141 and the call gets as far as its loan queries.                   *)
ScanReachesLoanQueries(topic, payload, fails) ==
    LET parsed == TopicId(topic)
        id == parsed.value
        session == IF id \in DOMAIN sessions THEN sessions[id]
                   ELSE NewSession("scanning")
    IN /\ topic.prefix = "ReturnBox" /\ topic.suffix = "/Return"
       /\ parsed # ValueError
       /\ Accepted(payload)
       /\ ~(id \in DOMAIN sessions
            /\ RaisesBeforeFinalize(sessions[id], payload.tags))
       /\ ScanFinalizes(session)
       /\ ReachesLoanQueries(id, FinalizeTags(session, payload.tags), fails)

(* _handle_return_update in one step: every run of it in which no row is    *)
(* read and written later, that is, in which _process_finalized_return is   *)
(* not called or ends before its loan queries.                              *)
HandleReturnUpdate(topic, payload, fails) ==
    /\ ~ScanReachesLoanQueries(topic, payload, fails)
    /\ HandleReturnUpdateReading(topic, payload, fails, Stored)

(* _handle_command_message *)
HandleCommandMessage(topic, payload) ==
    LET parsed == TopicId(topic)
        id == parsed.value
    IN
    IF parsed = ValueError \/ ~IsConfirm(payload)
    THEN UNCHANGED engineVars
    ELSE
      /\ nmsgs' = nmsgs + 1
      /\ life' = [life EXCEPT ![id] = Append(@, ConfirmMsg)]
      /\ ever_created' = ever_created \cup {id}
      /\ UNCHANGED <<db_copy_status, db_loans, fin_runs, completed_mark>>
      /\ IF id \in DOMAIN sessions
         THEN LET session == sessions[id]
                  new_status == ConfirmedStatus(session)
              IN /\ sessions' = Put(sessions, id,
                                    [session EXCEPT !.status = new_status])
                 /\ IF ConfirmSpawns(session, new_status)
                    THEN /\ threads' = Append(threads,
                                 [box |-> id, tags |-> session.epc_tags])
                         /\ fin_calls' =
                               [fin_calls EXCEPT ![id] = Append(@, session.epc_tags)]
                    ELSE UNCHANGED <<threads, fin_calls>>
         ELSE /\ sessions' = Put(sessions, id, NewSession("finalized"))
              /\ UNCHANGED <<threads, fin_calls>>

(* on_message: dispatch on the topic *)
OnMessageDispatch(topic, payload, fails) ==
    IF topic.prefix = "ReturnBox" /\ topic.suffix = "/Return"
    THEN HandleReturnUpdate(topic, payload, fails)
    ELSE IF topic.prefix = "ReturnBox" /\ topic.suffix = "/Command"
    THEN HandleCommandMessage(topic, payload)
    ELSE UNCHANGED engineVars

(* Where the persistence calls of the handler of a message can fail: the   *)
(* handler makes them only at line 141, for a scan of a finalized session.  *)
FailPointsOf(topic, payload) ==
    LET parsed == TopicId(topic)
    IN IF /\ topic.prefix = "ReturnBox" /\ topic.suffix = "/Return"
          /\ parsed # ValueError
          /\ Accepted(payload)
          /\ parsed.value \in DOMAIN sessions
          /\ ScanFinalizes(sessions[parsed.value])
          /\ IsList(payload.tags)
       THEN FailPoints ELSE {"none"}

(* What a message is, read off its topic and payload. *)
MsgClass(topic, payload) ==
    IF topic.prefix # "ReturnBox" THEN "other_topic"
    ELSE IF topic.suffix = "/Return"
    THEN IF ~IsNumeral(Unsigned(Strip(TopicClean(topic)))) THEN "bad_id_return"
         ELSE IF payload.shape \in {"list", "dict_return"} THEN "scan"
         ELSE IF payload.shape = "dict_return_number" THEN "return_number"
         ELSE IF payload.shape = "invalid_json" THEN "bad_json"
         ELSE "bad_shape"
    ELSE IF ~IsNumeral(Unsigned(Strip(TopicClean(topic)))) THEN "bad_id_command"
         ELSE IF payload.text = "CONFIRM RETURN" THEN "confirm"
         ELSE IF payload.text = "UNLOCK" THEN "unlock_echo"
         ELSE "not_confirm"

(* The members of a set of copies in the order of their ids. *)
RECURSIVE Ascending(_)
Ascending(S) ==
    IF S = {} THEN <<>>
    ELSE LET least == CHOOSE c \in S : \A d \in S : c <= d
         IN <<least>> \o Ascending(S \ {least})

(* The copies query and the box query of a call have answered and the call  *)
(* has run to its first loan query, lines 210-231: the rows read, the       *)
(* return date read at line 231, which every loan the call closes gets, and *)
(* the copies whose loan query is still to run.                             *)
QueriesBegun(tags) ==
    [read |-> [copies |-> db_copy_status, loans |-> <<>>,
               return_date |-> clock],
     todo |-> Ascending(MatchedCopies(tags))]

(* The loan query of the next copy answers, lines 232-235: the loan row it  *)
(* finds is read as it is now.                                              *)
LoanQueried(o) ==
    LET l == FirstActiveLoan(db_loans, Head(o.todo))
    IN [o EXCEPT !.todo = Tail(@),
                 !.read.loans = IF l = NULL THEN @ ELSE Put(@, l, db_loans[l])]

(* A scan message for a finalized session: the handler runs to line 141 and *)
(* _process_finalized_return up to its loan queries; the loop thread stays  *)
(* in the handler, inside its with-block.                                   *)
ScanQueries(topics, payloads) ==
    /\ fin_open.loop = <<>>
    /\ \E topic \in topics, payload \in payloads :
          LET id == TopicId(topic).value
              session == IF id \in DOMAIN sessions THEN sessions[id]
                         ELSE NewSession("scanning")
          IN /\ ScanReachesLoanQueries(topic, payload, "none")
             /\ fin_open' = [fin_open EXCEPT
                    !.loop = <<[topic |-> topic, payload |-> payload]
                               @@ QueriesBegun(FinalizeTags(session,
                                                            payload.tags))>>]
    /\ UNCHANGED <<is_connected, clock, poll_resp, db_returns, req>>
    /\ UNCHANGED engineVars
    /\ UNCHANGED unlockVars

(* The handler's next loan query answers. *)
ScanLoanQuery ==
    /\ fin_open.loop # <<>>
    /\ fin_open.loop[1].todo # <<>>
    /\ fin_open' = [fin_open EXCEPT !.loop = <<LoanQueried(fin_open.loop[1])>>]
    /\ UNCHANGED <<is_connected, clock, poll_resp, db_returns, req>>
    /\ UNCHANGED engineVars
    /\ UNCHANGED unlockVars

(* The handler's finalization ends and the handler runs to its end, lines   *)
(* 232-249 and 142-158: a loan query raises, or every loan query has        *)
(* answered and the commit and the close succeed or raise.                  *)
ScanCommits ==
    /\ fin_open.loop # <<>>
    /\ \E fails \in LateFailPoints \cup {"loan_query"} :
          /\ (fails = "loan_query") = (fin_open.loop[1].todo # <<>>)
          /\ HandleReturnUpdateReading(fin_open.loop[1].topic,
                                       fin_open.loop[1].payload, fails,
                                       fin_open.loop[1].read)
    /\ fin_open' = [fin_open EXCEPT !.loop = <<>>]
    /\ UNCHANGED <<is_connected, clock, poll_resp, db_returns, req>>
    /\ UNCHANGED unlockVars

(* What the message in the handler is. *)
InHandlerClass ==
    MsgClass(fin_open.loop[1].topic, fin_open.loop[1].payload)

(* on_message, for a run that handles at most limit messages, each on one  *)
(* of the topics and with one of the payloads given.  A message is         *)
(* received and handled while the                                          *)
(* client is connected; a handler whose finalization reaches the loan      *)
(* queries takes the steps ScanQueries, ScanLoanQuery and ScanCommits, and *)
(* the loop thread receives nothing until it has ended.                    *)
OnMessageOf(limit, topics, payloads) ==
    \/ /\ is_connected
       /\ nmsgs < limit
       /\ fin_open.loop = <<>>
       /\ \E topic \in topics, payload \in payloads :
             \E fails \in FailPointsOf(topic, payload) :
                OnMessageDispatch(topic, payload, fails)
       /\ UNCHANGED <<is_connected, clock, poll_resp>>
       /\ UNCHANGED unlockVars
       /\ UNCHANGED lockVars
       /\ UNCHANGED <<msg_log, db_returns, fin_open, req>>
    \/ /\ is_connected
       /\ nmsgs < limit
       /\ ScanQueries(topics, payloads)
       /\ UNCHANGED lockVars
       /\ UNCHANGED msg_log
    \/ /\ ScanLoanQuery
       /\ UNCHANGED lockVars
       /\ UNCHANGED msg_log
    \/ /\ ScanCommits
       /\ UNCHANGED lockVars
       /\ UNCHANGED msg_log

OnMessageFrom(limit, topics) == OnMessageOf(limit, topics, Payloads)

OnMessageUpTo(limit) == OnMessageFrom(limit, Topics)

(* The messages of the runs that also send unlock commands: scans of both   *)
(* copies' tags and of a tag on no copy, and the command texts, for         *)
(* device 1, which has a return_box row, and device 2, which has none.      *)
MixTopics ==
    {t \in Topics : t.prefix = "ReturnBox" /\ t.token \in {<<0, 1>>, <<0, 2>>}}

(* The messages of the runs with the loan and return routes: for device 1,  *)
(* scans of both copies' tags and of a copy's tag with a tag on no copy,    *)
(* and CONFIRM RETURN.                                                      *)
LoanTopics ==
    {t \in Topics : t.prefix = "ReturnBox" /\ t.token = <<0, 1>>}

LoanPayloads ==
    {p \in Payloads : \/ p.text = "CONFIRM RETURN"
                      \/ p.shape = "list" /\ p.tags \in {<<"E1", "E2">>, <<"E2", "X">>}}

MixPayloads ==
    {p \in Payloads : \/ p.shape = "invalid_json"
                      \/ p.shape = "list" /\ p.tags \in {<<"E1", "E2">>, <<"X">>}}

(* The topics of the runs that HTTP clients poll: those of device 1, those  *)
(* with an identifier that is no number, and the ones not dispatched.       *)
PollTopics == {t \in Topics : t.token \in {<<0, 1>>, <<0, 10>>}}

OnMessage == OnMessageUpTo(MaxMsgs)

(* on_message, every received message traced when its handling ends *)
OnMessageTraced ==
    \/ /\ is_connected
       /\ Len(msg_log) < MaxTraceMsgs
       /\ fin_open.loop = <<>>
       /\ \E topic \in Topics, payload \in Payloads :
           \E fails \in FailPointsOf(topic, payload) :
             /\ OnMessageDispatch(topic, payload, fails)
             /\ msg_log' = Append(msg_log, MsgClass(topic, payload))
       /\ UNCHANGED <<is_connected, clock, poll_resp, db_returns, fin_open, req>>
       /\ UNCHANGED unlockVars
       /\ UNCHANGED lockVars
    \/ /\ is_connected
       /\ Len(msg_log) < MaxTraceMsgs
       /\ ScanQueries(Topics, Payloads)
       /\ UNCHANGED lockVars
       /\ UNCHANGED msg_log
    \/ /\ ScanLoanQuery
       /\ UNCHANGED lockVars
       /\ UNCHANGED msg_log
    \/ /\ ScanCommits
       /\ msg_log' = Append(msg_log, InHandlerClass)
       /\ UNCHANGED lockVars

(* The tags the session holds when the thread runs. *)
ThreadTagsLive(t) ==
    IF t.box \in DOMAIN sessions THEN sessions[t.box].epc_tags ELSE <<>>

(* The tags a finalization thread works on: the list copied when the        *)
(* thread was made, args=(return_box_id, epc_tags) at lines 184-188.        *)
ThreadTags(t) == t.tags

(* A sequence without its i-th element *)
Without(seq, i) == SubSeq(seq, 1, i - 1) \o SubSeq(seq, i + 1, Len(seq))

(* A finalization thread's _process_finalized_return, having read the rows  *)
(* and the return date in read, ends.                                       *)
ThreadFinalizes(t, fails, read) ==
    LET out == Flush(ProcessFinalizedReturn(t.box, t.tags, fails,
                                            read.copies, read.loans,
                                            read.return_date),
                     read, db_copy_status, db_loans)
    IN /\ db_copy_status' = out.copies
       /\ db_loans' = out.loans
       /\ fin_runs' = Append(fin_runs, FinRun(t.box, t.tags, fails, out))
       /\ UNCHANGED <<sessions, life, fin_calls, completed_mark, nmsgs,
                       ever_created, is_connected, clock, poll_resp>>
       /\ UNCHANGED unlockVars
       /\ UNCHANGED lockVars
       /\ UNCHANGED <<msg_log, db_returns, req>>

(* The entries of a function of thread positions once the thread at        *)
(* position i has gone: the later threads move down by one.                *)
ShiftOut(f, i) ==
    [j \in {k \in DOMAIN f : k < i} \cup {k - 1 : k \in {m \in DOMAIN f : m > i}}
       |-> IF j < i THEN f[j] ELSE f[j + 1]]

(* The thread at position i of the started threads, with the tags it was   *)
(* started with.                                                            *)
ThreadCall(i) == [box |-> threads[i].box, tags |-> ThreadTags(threads[i])]

(* The thread at position i ends. *)
ThreadEnds(i) ==
    /\ threads' = Without(threads, i)
    /\ fin_open' = [fin_open EXCEPT !.threads = ShiftOut(@, i)]

(* A thread the confirm handler started begins _process_finalized_return:   *)
(* it ends before its loan queries (lines 203-230), or its copies query and *)
(* its box query have answered and it goes on to the loan queries.          *)
ThreadQueries ==
    \E i \in (1..Len(threads)) \ DOMAIN fin_open.threads,
       fails \in FailPoints :
      IF ReachesLoanQueries(ThreadCall(i).box, ThreadCall(i).tags, fails)
      THEN /\ fin_open' = [fin_open EXCEPT
                  !.threads = Put(@, i, QueriesBegun(ThreadCall(i).tags))]
           /\ UNCHANGED <<is_connected, clock, poll_resp, msg_log, db_returns, req>>
           /\ UNCHANGED engineVars
           /\ UNCHANGED unlockVars
           /\ UNCHANGED lockVars
      ELSE /\ ThreadFinalizes(ThreadCall(i), fails, Stored)
           /\ ThreadEnds(i)

(* The thread's next loan query answers. *)
ThreadLoanQuery ==
    /\ \E i \in DOMAIN fin_open.threads :
          /\ fin_open.threads[i].todo # <<>>
          /\ fin_open' = [fin_open EXCEPT
                             !.threads[i] = LoanQueried(fin_open.threads[i])]
    /\ UNCHANGED <<is_connected, clock, poll_resp, msg_log, db_returns, req>>
    /\ UNCHANGED engineVars
    /\ UNCHANGED unlockVars
    /\ UNCHANGED lockVars

(* The thread ends, lines 232-249: a loan query raises, or every loan query *)
(* has answered and the commit and the close succeed or raise.              *)
ThreadCommits ==
    \E i \in DOMAIN fin_open.threads,
       fails \in LateFailPoints \cup {"loan_query"} :
      /\ (fails = "loan_query") = (fin_open.threads[i].todo # <<>>)
      /\ ThreadFinalizes(ThreadCall(i), fails, fin_open.threads[i].read)
      /\ ThreadEnds(i)

(* A step of a thread the confirm handler started, which runs               *)
(* _process_finalized_return beside the loop thread and the requests.       *)
RunFinalizationThread == ThreadQueries \/ ThreadLoanQuery \/ ThreadCommits

(* clear_return_session, lines 472-475: the dict after the call *)
ClearedAll(dict, id) == <<>>

Cleared(dict, id) == IF id \in DOMAIN dict THEN Del(dict, id) ELSE dict

(* clear_return_session(id), which waits for the lock while a handler holds *)
(* it; the histories of a device start again                                *)
ClearReturnSessionFor(id) ==
    /\ fin_open.loop = <<>>
    /\ sessions' = Cleared(sessions, id)
    /\ life' = [life EXCEPT ![id] = <<>>]
    /\ fin_calls' = [fin_calls EXCEPT ![id] = <<>>]
    /\ completed_mark' = [completed_mark EXCEPT ![id] = -1]
    /\ UNCHANGED <<threads, db_copy_status, db_loans, fin_runs, nmsgs,
                    ever_created, is_connected, clock, poll_resp>>
    /\ UNCHANGED unlockVars
    /\ UNCHANGED lockVars
    /\ UNCHANGED <<msg_log, db_returns, fin_open, req>>

ClearReturnSession == \E id \in Devices : ClearReturnSessionFor(id)

(* on_connect with rc = 0 or not, and on_disconnect: callbacks of the loop  *)
(* thread, which runs one callback at a time                                *)
OnConnect ==
    /\ fin_open.loop = <<>>
    /\ \E rc \in {0, 1} : is_connected' = (rc = 0)
    /\ UNCHANGED <<clock, poll_resp>>
    /\ UNCHANGED engineVars
    /\ UNCHANGED unlockVars
    /\ UNCHANGED lockVars
    /\ UNCHANGED <<msg_log, db_returns, fin_open, req>>

OnDisconnect ==
    /\ fin_open.loop = <<>>
    /\ is_connected' = FALSE
    /\ UNCHANGED <<clock, poll_resp>>
    /\ UNCHANGED engineVars
    /\ UNCHANGED unlockVars
    /\ UNCHANGED lockVars
    /\ UNCHANGED <<msg_log, db_returns, fin_open, req>>

(* is_running; self.client is set by connect() at application start-up. *)
IsRunning == is_connected

----------------------------------------------------------------------------
(* Polling: GET /api/library/return/status/{return_box_id} *)

BooksInfo(tags) ==
    {[epc |-> BookEpc(c), copy_id |-> c, status |-> db_copy_status[c]] :
        c \in MatchedCopies(tags)}

(* What the persistence layer does in get_return_status: the book query    *)
(* answers; it raises and the except clause (lines 460-462) gives no books; *)
(* SessionLocal() (line 438) or db.close() (line 464) raises and the        *)
(* exception leaves the method.                                             *)
QueryOutcomes == {"ok", "query_raises", "escapes"}

(* MQTTService.get_return_status: None, or a copy of the session with       *)
(* books; the persistence layer is used only for a session with tags.       *)
ServiceReturnStatus(id, db) ==
    IF id \notin DOMAIN sessions
    THEN [found |-> FALSE, status |-> "", epc_tags |-> <<>>, books |-> {},
          raised |-> FALSE]
    ELSE [found |-> TRUE, status |-> sessions[id].status,
          epc_tags |-> sessions[id].epc_tags,
          books |-> IF db = "ok" THEN BooksInfo(sessions[id].epc_tags) ELSE {},
          raised |-> sessions[id].epc_tags # <<>> /\ db = "escapes"]

(* The stored sessions after get_return_status, were 'books' assigned to    *)
(* the stored session.                                                      *)
StoredAfterStatusAliased(dict, id) ==
    IF id \in DOMAIN dict
    THEN [dict EXCEPT ![id] =
            [epc_tags |-> @.epc_tags, status |-> @.status,
             timestamp |-> @.timestamp, books |-> BooksInfo(@.epc_tags)]]
    ELSE dict

(* The stored sessions after get_return_status: line 434 copies the session *)
(* and lines 462-466 assign 'books' to the copy.                            *)
StoredAfterStatus(dict, id) == dict

(* The route after its is_running test: lines 155-172 *)
RouteStatusBody(id, db) ==
    LET data == ServiceReturnStatus(id, db)
        ghost == [box |-> id, had_session |-> id \in ever_created]
    IN
    IF data.raised
    THEN [code |-> 500, status |-> "", epc_tags |-> <<>>, books |-> {}] @@ ghost
    ELSE IF ~data.found
    THEN [code |-> 200, status |-> "idle", epc_tags |-> <<>>, books |-> {}] @@ ghost
    ELSE [code |-> 200, status |-> data.status, epc_tags |-> data.epc_tags,
          books |-> data.books] @@ ghost

(* The route's answer when is_running() is false: lines 149-153 *)
RouteStatusUnavailable(id) ==
    [code |-> 503, status |-> "", epc_tags |-> <<>>, books |-> {},
     box |-> id, had_session |-> id \in ever_created]

pollFrame ==
    <<is_connected, clock, threads, db_copy_status, db_loans, life, fin_calls,
      completed_mark, fin_runs, nmsgs, ever_created, lock, loop, npolls,
      msg_log, db_returns, fin_open, req>>

(* GET /api/library/return/status/{id}: the is_running test of the route,   *)
(* lines 149-153; it answers 503 or goes on to call get_return_status.      *)
GetReturnStatusCall ==
    /\ pollers[1].pc = "idle"
    /\ \E id \in Devices :
          IF ~IsRunning
          THEN /\ poll_resp' = RouteStatusUnavailable(id)
               /\ UNCHANGED pollers
          ELSE /\ pollers' = [pollers EXCEPT ![1] = [pc |-> "waiting", box |-> id]]
               /\ UNCHANGED poll_resp
    /\ UNCHANGED sessions
    /\ UNCHANGED pollFrame
    /\ UNCHANGED unlockVars

(* get_return_status gets the lock, copies the session, asks for the books  *)
(* and the route answers: lines 430-468 and 155-172.  Every writer of the   *)
(* sessions waits for the lock meanwhile.                                   *)
GetReturnStatusAnswer ==
    /\ pollers[1].pc = "waiting"
    /\ fin_open.loop = <<>>
    /\ \E db \in QueryOutcomes :
          poll_resp' = RouteStatusBody(pollers[1].box, db)
    /\ sessions' = StoredAfterStatus(sessions, pollers[1].box)
    /\ pollers' = [pollers EXCEPT ![1] = [pc |-> "idle", box |-> 0]]
    /\ UNCHANGED pollFrame
    /\ UNCHANGED unlockVars

(* A step of the status request. *)
GetReturnStatus == GetReturnStatusCall \/ GetReturnStatusAnswer

----------------------------------------------------------------------------
(* The handlers and the polling call with self._lock made explicit: a       *)
(* thread asks for the lock, gets it when nobody holds it, runs the body    *)
(* of its with-block and releases the lock on leaving the block.            *)

(* The message reaches a with self._lock block: lines 60-63, then 107-126   *)
(* for a scan and 164-173 for CONFIRM RETURN.                               *)
NeedsLock(topic, payload) ==
    /\ topic.prefix = "ReturnBox"
    /\ TopicId(topic) # ValueError
    /\ \/ topic.suffix = "/Return" /\ Accepted(payload)
       \/ topic.suffix = "/Command" /\ IsConfirm(payload)

(* Leaving the with-block. *)
ReleasedNever(holder) == holder

Released(holder) == NoHolder

(* on_message up to the with statement; a message that is dropped before    *)
(* it ends the callback at once.  Nothing reads the message before the      *)
(* body of the with-block does, so the state keeps only the position and    *)
(* LoopRun draws the message.                                               *)
LoopReceive ==
    /\ is_connected
    /\ nmsgs < MaxLockMsgs
    /\ loop = "idle"
    /\ \E topic \in Topics, payload \in Payloads :
          IF NeedsLock(topic, payload)
          THEN loop' = "waiting"
          ELSE UNCHANGED loop
    /\ UNCHANGED <<lock, pollers, npolls, is_connected, clock, poll_resp>>
    /\ UNCHANGED engineVars
    /\ UNCHANGED unlockVars
    /\ UNCHANGED <<msg_log, db_returns, fin_open, req>>

(* with self._lock: entered by the network-loop thread *)
LoopAcquire ==
    /\ loop = "waiting"
    /\ lock = NoHolder
    /\ lock' = LoopThread
    /\ loop' = "holding"
    /\ UNCHANGED <<pollers, npolls, is_connected, clock, poll_resp>>
    /\ UNCHANGED engineVars
    /\ UNCHANGED unlockVars
    /\ UNCHANGED <<msg_log, db_returns, fin_open, req>>

(* The body of the with-block and the release.  The inline finalization    *)
(* takes no lock itself and runs inside the with-block: the handler whose   *)
(* finalization reaches the loan queries keeps the lock through             *)
(* ScanQueries and ScanLoanQuery and releases it after ScanCommits.         *)
LoopRun ==
    \/ /\ loop = "holding"
       /\ fin_open.loop = <<>>
       /\ \E topic \in Topics, payload \in Payloads, fails \in FailPoints :
             /\ NeedsLock(topic, payload)
             /\ OnMessageDispatch(topic, payload, fails)
       /\ lock' = Released(lock)
       /\ loop' = "idle"
       /\ UNCHANGED <<pollers, npolls, is_connected, clock, poll_resp>>
       /\ UNCHANGED unlockVars
       /\ UNCHANGED <<msg_log, db_returns, fin_open, req>>
    \/ /\ loop = "holding"
       /\ ScanQueries(Topics, Payloads)
       /\ UNCHANGED lockVars
       /\ UNCHANGED msg_log
    \/ /\ loop = "holding"
       /\ ScanLoanQuery
       /\ UNCHANGED lockVars
       /\ UNCHANGED msg_log
    \/ /\ loop = "holding"
       /\ ScanCommits
       /\ lock' = Released(lock)
       /\ loop' = "idle"
       /\ UNCHANGED <<pollers, npolls, msg_log>>

(* GET /api/library/return/status/{id}: the is_running test, lines 149-153 *)
PollCall(w) ==
    /\ pollers[w].pc = "idle"
    /\ npolls < MaxPolls
    /\ npolls' = npolls + 1
    /\ \E id \in Devices :
          IF ~IsRunning
          THEN UNCHANGED pollers
          ELSE pollers' = [pollers EXCEPT ![w] = [pc |-> "waiting", box |-> id]]
    /\ UNCHANGED <<lock, loop, is_connected, clock, poll_resp>>
    /\ UNCHANGED engineVars
    /\ UNCHANGED unlockVars
    /\ UNCHANGED <<msg_log, db_returns, fin_open, req>>

(* get_return_status: with self._lock entered by the event-loop thread *)
PollAcquire(w) ==
    /\ pollers[w].pc = "waiting"
    /\ lock = NoHolder
    /\ lock' = w
    /\ pollers' = [pollers EXCEPT ![w].pc = "holding"]
    /\ UNCHANGED <<loop, npolls, is_connected, clock, poll_resp>>
    /\ UNCHANGED engineVars
    /\ UNCHANGED unlockVars
    /\ UNCHANGED <<msg_log, db_returns, fin_open, req>>

(* get_return_status, lines 431-438: no session, or a session with no tags, *)
(* ends the with-block at once; otherwise the session is copied and the     *)
(* book query starts, still inside the with-block.                          *)
PollCopy(w) ==
    /\ pollers[w].pc = "holding"
    /\ LET id == pollers[w].box IN
       IF id \in DOMAIN sessions /\ sessions[id].epc_tags # <<>>
       THEN /\ pollers' = [pollers EXCEPT ![w].pc = "reading"]
            /\ UNCHANGED <<lock, sessions>>
       ELSE /\ pollers' = [pollers EXCEPT ![w] = [pc |-> "idle", box |-> 0]]
            /\ sessions' = StoredAfterStatus(sessions, id)
            /\ lock' = Released(lock)
    /\ UNCHANGED <<loop, npolls, is_connected, clock, poll_resp>>
    /\ UNCHANGED <<threads, db_copy_status, db_loans, life, fin_calls,
                   completed_mark, fin_runs, nmsgs, ever_created>>
    /\ UNCHANGED unlockVars
    /\ UNCHANGED <<msg_log, db_returns, fin_open, req>>

(* get_return_status, lines 439-468: the book query returns (it writes      *)
(* nothing) and the with-block is left.                                     *)
PollRead(w) ==
    /\ pollers[w].pc = "reading"
    /\ sessions' = StoredAfterStatus(sessions, pollers[w].box)
    /\ lock' = Released(lock)
    /\ pollers' = [pollers EXCEPT ![w] = [pc |-> "idle", box |-> 0]]
    /\ UNCHANGED <<loop, npolls, is_connected, clock, poll_resp>>
    /\ UNCHANGED <<threads, db_copy_status, db_loans, life, fin_calls,
                   completed_mark, fin_runs, nmsgs, ever_created>>
    /\ UNCHANGED unlockVars
    /\ UNCHANGED <<msg_log, db_returns, fin_open, req>>

(* disconnect(), line 409: with self._lock entered by the thread that shuts *)
(* the application down; self.client was set by connect() at start-up.      *)
DisconnectAcquire ==
    /\ loop # "stopped"
    /\ lock = NoHolder
    /\ lock' = MainThread
    /\ UNCHANGED <<loop, pollers, npolls, is_connected, clock, poll_resp>>
    /\ UNCHANGED engineVars
    /\ UNCHANGED unlockVars
    /\ UNCHANGED <<msg_log, db_returns, fin_open, req>>

(* disconnect(), lines 411-416 and the end of the with-block: loop_stop()   *)
(* joins the network-loop thread, which ends only between callbacks; then   *)
(* client.disconnect() returns and line 413 clears is_connected, or it      *)
(* raises and the except branch at lines 415-416 leaves is_connected as it  *)
(* was.  Either way the with-block is left.                                 *)
DisconnectLoopStop ==
    /\ lock = MainThread
    /\ loop = "idle"
    /\ loop' = "stopped"
    /\ \E raises \in BOOLEAN :
          is_connected' = IF raises THEN is_connected ELSE FALSE
    /\ lock' = Released(lock)
    /\ UNCHANGED <<pollers, npolls, clock, poll_resp>>
    /\ UNCHANGED engineVars
    /\ UNCHANGED unlockVars
    /\ UNCHANGED <<msg_log, db_returns, fin_open, req>>

(* on_connect and on_disconnect are callbacks of the network-loop thread. *)
LoopOnConnect == loop = "idle" /\ OnConnect

LoopOnDisconnect == loop = "idle" /\ OnDisconnect

----------------------------------------------------------------------------
(* The command dispatcher: POST /api/mqtt/unlock/{return_box_id} and        *)
(* send_unlock_command, whose only caller is that route (routes/mqtt.py     *)
(* line 20).  The method takes no lock; a call is the steps check (the      *)
(* route's is_running test), read (now and the cooldown record, and the     *)
(* cooldown test), publish, write (the cooldown record), between which the  *)
(* clock and the loop thread go on.  The next request starts when the call  *)
(* has returned.                                                            *)

Get(dict, key) == IF key \in DOMAIN dict THEN dict[key] ELSE NULL

InCooldownNever(now, last) == FALSE

InCooldownInclusive(now, last) ==
    last # NULL /\ now - last <= UnlockCooldownSeconds

(* if last_unlock_time: ... time_since_last < self._unlock_cooldown_seconds *)
InCooldown(now, last) == last # NULL /\ now - last < UnlockCooldownSeconds

PublishSucceededUnchecked(connected, rc) == TRUE

(* self.client and self.is_connected, then result.rc == MQTT_ERR_SUCCESS *)
PublishSucceeded(connected, rc) == connected /\ rc = 0

Idle == [pc |-> "idle", box |-> 0, now |-> 0, last |-> NULL]

CallsStarted ==
    Len(unlock_log) + Cardinality({w \in Workers : callers[w].pc # "idle"})

(* unlock_return_box, lines 20-21: send_unlock_command returns None in every *)
(* case, and the route answers 200 with this message after it.              *)
RouteUnlockResponse(box) ==
    [code |-> 200, message |-> <<"Unlock command sent to return box", box>>]

LogEntry(box, now, outcome) ==
    [box |-> box, now |-> now, outcome |-> outcome,
     http |-> RouteUnlockResponse(box)]

(* unlock_return_box: the is_running test *)
RouteUnlockCheck(w, limit, boxes) ==
    /\ callers[w].pc = "idle"
    /\ CallsStarted < limit
    /\ \E box \in boxes :
         IF ~IsRunning
         THEN UNCHANGED callers
         ELSE callers' = [callers EXCEPT ![w] = [Idle EXCEPT !.pc = "called", !.box = box]]
    /\ UNCHANGED <<last_unlock_times, unlock_log, publishes, is_connected, clock,
                    poll_resp>>
    /\ UNCHANGED engineVars
    /\ UNCHANGED lockVars
    /\ UNCHANGED <<msg_log, db_returns, fin_open, req>>

(* The cooldown records after a suppressed call: lines 75-83 assign nothing. *)
AfterSuppressedRefreshed(times, box, now) == Put(times, box, now)

AfterSuppressed(times, box, now) == times

(* send_unlock_command, lines 72-83 *)
UnlockRead(w) ==
    /\ callers[w].pc = "called"
    /\ LET box == callers[w].box
           now == clock
           last == Get(last_unlock_times, box)
       IN IF InCooldown(now, last)
          THEN /\ unlock_log' = Append(unlock_log,
                     LogEntry(box, now, "suppressed"))
               /\ callers' = [callers EXCEPT ![w] = Idle]
               /\ last_unlock_times' = AfterSuppressed(last_unlock_times, box, now)
          ELSE /\ callers' = [callers EXCEPT ![w] =
                                 [pc |-> "read", box |-> box, now |-> now, last |-> last]]
               /\ UNCHANGED <<unlock_log, last_unlock_times>>
    /\ UNCHANGED <<publishes, is_connected, clock, poll_resp>>
    /\ UNCHANGED engineVars
    /\ UNCHANGED lockVars
    /\ UNCHANGED <<msg_log, db_returns, fin_open, req>>

(* f"{return_box_id}": the decimal digits of a number, no padding *)
RECURSIVE Str(_)
Str(n) == IF n < 10 THEN <<n>> ELSE Append(Str(n \div 10), n % 10)

(* settings.mqtt_command_topic_format.format(return_box_id=...): the        *)
(* template is "ReturnBox0{return_box_id}/Command", its 0 a literal.        *)
CommandTopic(return_box_id) ==
    [prefix |-> "ReturnBox", token |-> <<0>> \o Str(return_box_id),
     suffix |-> "/Command"]

(* send_unlock_command, lines 85-97: rc is what the client's publish returns *)
UnlockPublish(w) ==
    /\ callers[w].pc = "read"
    /\ \E rc \in {0, 1} :
         LET c == callers[w]
             sent == is_connected /\ rc = 0
         IN /\ publishes' = IF sent
                             THEN Append(publishes, [box |-> c.box, at |-> clock,
                                                     now |-> c.now,
                                                     topic |-> CommandTopic(c.box),
                                                     payload |-> "UNLOCK"])
                             ELSE publishes
            /\ IF PublishSucceeded(is_connected, rc)
               THEN /\ callers' = [callers EXCEPT ![w] =
                          [c EXCEPT !.pc = IF sent THEN "write" ELSE "write_unsent"]]
                    /\ UNCHANGED unlock_log
               ELSE /\ callers' = [callers EXCEPT ![w] = Idle]
                    /\ unlock_log' = Append(unlock_log,
                          LogEntry(c.box, c.now,
                                   IF ~is_connected THEN "not_connected"
                                   ELSE IF rc # 0 THEN "publish_failed"
                                   ELSE "published"))
    /\ UNCHANGED <<last_unlock_times, is_connected, clock, poll_resp>>
    /\ UNCHANGED engineVars
    /\ UNCHANGED lockVars
    /\ UNCHANGED <<msg_log, db_returns, fin_open, req>>

(* send_unlock_command, line 92 *)
UnlockWrite(w) ==
    /\ callers[w].pc \in {"write", "write_unsent"}
    /\ LET c == callers[w] IN
       /\ last_unlock_times' = Put(last_unlock_times, c.box, c.now)
       /\ unlock_log' = Append(unlock_log,
             LogEntry(c.box, c.now,
                      IF c.pc = "write" THEN "published" ELSE "publish_failed"))
       /\ callers' = [callers EXCEPT ![w] = Idle]
    /\ UNCHANGED <<publishes, is_connected, clock, poll_resp>>
    /\ UNCHANGED engineVars
    /\ UNCHANGED lockVars
    /\ UNCHANGED <<msg_log, db_returns, fin_open, req>>

----------------------------------------------------------------------------
(* The loan and return routes on the persistence layer.  The event-loop    *)
(* thread runs one request at a time; a request is the steps between its    *)
(* round trips to the database, and the loop thread and the finalization    *)
(* threads run between them.  Each request has its own session              *)
(* (database.py line 37, autoflush off): it writes at db.commit() the       *)
(* attributes it changed on the rows it loaded, and forgets what it loaded. *)

ActiveLoansOf(loans, c, u) ==
    {l \in DOMAIN loans : /\ loans[l].copy_id = c
                          /\ loans[l].user_id = u
                          /\ loans[l].status = "active"}

(* db.query(Loan).filter(copy_id, user_id, status == 'active').first() *)
FirstActiveLoanOf(loans, c, u) ==
    IF ActiveLoansOf(loans, c, u) = {} THEN NULL
    ELSE CHOOSE l \in ActiveLoansOf(loans, c, u) :
            \A m \in ActiveLoansOf(loans, c, u) : l <= m

(* What a step of a request leaves alone besides the rows. *)
RequestFrame ==
    /\ UNCHANGED <<sessions, threads, life, fin_calls, completed_mark, fin_runs,
                   nmsgs, ever_created, msg_log, fin_open>>
    /\ UNCHANGED <<is_connected, clock, poll_resp>>
    /\ UNCHANGED unlockVars
    /\ UNCHANGED lockVars

(* The request the event-loop thread is in is at position pc of route. *)
At(route, pc) == req # <<>> /\ req[1].route = route /\ req[1].pc = pc

(* The copy a tag is on, or NULL: the copies query by book_epc. *)
CopyOfTag(tag) ==
    IF \E c \in CopyIds : BookEpc(c) = tag
    THEN CHOOSE c \in CopyIds : BookEpc(c) = tag
    ELSE NULL

(* The statuses after a commit that had loaded the copies in DOMAIN read    *)
(* with the statuses in read and set the status of each to value: an        *)
(* UPDATE goes out for a copy whose loaded status differs.                  *)
CopiesFlushed(read, value) ==
    [c \in DOMAIN db_copy_status |->
        IF c \in DOMAIN read /\ read[c] # value THEN value
        ELSE db_copy_status[c]]

(* POST /api/library/loans/, create_loan lines 162-180: the role test and   *)
(* the copy query.                                                          *)
CreateLoanChecks ==
    /\ req = <<>>
    /\ Cardinality(DOMAIN db_loans) < MaxLoans
    /\ \E current_user \in Users, user_id \in Users, copy_id \in CopyIds,
          due_date \in {clock - 1, clock + 1} :
          IF \/ /\ user_id # current_user
                /\ UserRole(current_user) \notin {"librarian", "admin"}
             \/ db_copy_status[copy_id] # "available"
          THEN UNCHANGED req
          ELSE req' = <<[route |-> "create_loan", pc |-> "loan_query",
                         user_id |-> user_id, copy_id |-> copy_id,
                         due_date |-> due_date]>>
    /\ UNCHANGED <<db_loans, db_copy_status, db_returns>>
    /\ RequestFrame

(* create_loan lines 183-193: the query for a loan the user already has *)
CreateLoanLoanQuery ==
    /\ At("create_loan", "loan_query")
    /\ req' = IF ActiveLoansOf(db_loans, req[1].copy_id, req[1].user_id) # {}
              THEN <<>>
              ELSE <<[req[1] EXCEPT !.pc = "commit"]>>
    /\ UNCHANGED <<db_loans, db_copy_status, db_returns>>
    /\ RequestFrame

(* create_loan lines 196-210: the new loan, the copy's status and the       *)
(* commit.                                                                  *)
CreateLoanCommits ==
    /\ At("create_loan", "commit")
    /\ db_loans' = Put(db_loans, Cardinality(DOMAIN db_loans) + 1,
           [copy_id |-> req[1].copy_id, user_id |-> req[1].user_id,
            status |-> "active", return_date |-> NULL,
            fine_amount |-> 0, due_date |-> req[1].due_date])
    /\ db_copy_status' =
           [db_copy_status EXCEPT ![req[1].copy_id] = "checked_out"]
    /\ req' = <<>>
    /\ UNCHANGED db_returns
    /\ RequestFrame

(* A step of create_loan. *)
CreateLoan == CreateLoanChecks \/ CreateLoanLoanQuery \/ CreateLoanCommits

(* POST /api/library/return/scan, scan_return_books lines 31-59: the tests  *)
(* of the request, the new return transaction, its commit, and the return   *)
(* date of the request.                                                     *)
ScanReturnBooksChecks ==
    /\ req = <<>>
    /\ Len(db_returns) < MaxReturns
    /\ \E current_user \in Users, epc_tags \in TagLists,
          return_box_id \in {NULL} \cup Devices :
          IF \/ epc_tags = <<>>
             \/ return_box_id # NULL /\ return_box_id \notin db_boxes
          THEN UNCHANGED <<db_returns, req>>
          ELSE /\ db_returns' = Append(db_returns,
                      [status |-> "pending", items |-> {}])
               /\ req' = <<[route |-> "scan_return_books", pc |-> "copy_query",
                            user_id |-> current_user,
                            return_id |-> Len(db_returns) + 1,
                            return_date |-> clock,
                            todo |-> epc_tags, read |-> <<>>,
                            copy_id |-> NULL, loan_id |-> NULL,
                            loan_read |-> NULL]>>
    /\ UNCHANGED <<db_loans, db_copy_status>>
    /\ RequestFrame

(* scan_return_books lines 63-67: the copy query of the next tag; a tag on  *)
(* no copy is passed over.                                                  *)
ScanReturnBooksCopyQuery ==
    /\ At("scan_return_books", "copy_query")
    /\ req[1].todo # <<>>
    /\ LET c == CopyOfTag(Head(req[1].todo))
       IN req' = IF c = NULL
                 THEN <<[req[1] EXCEPT !.todo = Tail(@)]>>
                 ELSE <<[req[1] EXCEPT
                           !.pc = "loan_query",
                           !.copy_id = c,
                           !.read = IF c \in DOMAIN @ THEN @
                                    ELSE Put(@, c, db_copy_status[c])]>>
    /\ UNCHANGED <<db_loans, db_copy_status, db_returns>>
    /\ RequestFrame

(* scan_return_books lines 70-74, and 84-94 when the user has no active     *)
(* loan of the copy: the return item and the copy's new status wait for     *)
(* the next commit.                                                         *)
ScanReturnBooksLoanQuery ==
    /\ At("scan_return_books", "loan_query")
    /\ LET l == FirstActiveLoanOf(db_loans, req[1].copy_id, req[1].user_id)
       IN req' = IF l = NULL
                 THEN <<[req[1] EXCEPT !.pc = "copy_query",
                                       !.todo = Tail(@),
                                       !.copy_id = NULL]>>
                 ELSE <<[req[1] EXCEPT !.pc = "loan_commit",
                                       !.loan_id = l,
                                       !.loan_read = db_loans[l]]>>
    /\ UNCHANGED <<db_loans, db_copy_status, db_returns>>
    /\ RequestFrame

(* The loan row after the UPDATE that closes it: the attributes whose new   *)
(* value differs from the loaded one are written.                           *)
LoanClosed(row, loaded, now) ==
    LET closed == [loaded EXCEPT !.return_date = now, !.status = "returned",
                                 !.fine_amount = 0]
    IN [f \in DOMAIN row |-> IF closed[f] # loaded[f] THEN closed[f] ELSE row[f]]

(* scan_return_books lines 77-81: the loan is closed and committed, and     *)
(* with it the return items and copy statuses that waited; the session      *)
(* forgets the rows it had loaded.                                          *)
ScanReturnBooksLoanCommit ==
    /\ At("scan_return_books", "loan_commit")
    /\ LET waiting == [c \in DOMAIN req[1].read \ {req[1].copy_id}
                          |-> req[1].read[c]]
       IN /\ db_loans' = [db_loans EXCEPT ![req[1].loan_id] =
                             LoanClosed(@, req[1].loan_read,
                                        req[1].return_date)]
          /\ db_copy_status' = CopiesFlushed(waiting, "returned")
          /\ db_returns' = [db_returns EXCEPT ![req[1].return_id].items =
                               @ \cup DOMAIN waiting]
    /\ req' = <<[req[1] EXCEPT !.pc = "reload", !.read = <<>>,
                               !.loan_id = NULL, !.loan_read = NULL]>>
    /\ RequestFrame

(* scan_return_books lines 84-94 after the commit of the loan: the copy is  *)
(* loaded again at line 86; its return item and its new status wait for     *)
(* the next commit.                                                         *)
ScanReturnBooksReload ==
    /\ At("scan_return_books", "reload")
    /\ req' = <<[req[1] EXCEPT
                   !.pc = "copy_query",
                   !.todo = Tail(@),
                   !.copy_id = NULL,
                   !.read = Put(@, req[1].copy_id,
                                db_copy_status[req[1].copy_id])]>>
    /\ UNCHANGED <<db_loans, db_copy_status, db_returns>>
    /\ RequestFrame

(* scan_return_books lines 97-99: the last commit *)
ScanReturnBooksCommits ==
    /\ At("scan_return_books", "copy_query")
    /\ req[1].todo = <<>>
    /\ db_copy_status' = CopiesFlushed(req[1].read, "returned")
    /\ db_returns' = [db_returns EXCEPT ![req[1].return_id].items =
                         @ \cup DOMAIN req[1].read]
    /\ req' = <<>>
    /\ UNCHANGED db_loans
    /\ RequestFrame

(* A step of scan_return_books. *)
ScanReturnBooks ==
    \/ ScanReturnBooksChecks
    \/ ScanReturnBooksCopyQuery
    \/ ScanReturnBooksLoanQuery
    \/ ScanReturnBooksLoanCommit
    \/ ScanReturnBooksReload
    \/ ScanReturnBooksCommits

(* POST /api/library/return/{return_id}/process, process_return lines       *)
(* 184-200: the role test, the query of the transaction and of its items.   *)
ProcessReturnChecks ==
    /\ req = <<>>
    /\ \E current_user \in Users, return_id \in 1..MaxReturns :
          IF \/ UserRole(current_user) \notin {"librarian", "admin"}
             \/ return_id \notin DOMAIN db_returns
          THEN UNCHANGED req
          ELSE req' = <<[route |-> "process_return", pc |-> "copies",
                         return_id |-> return_id,
                         todo |-> Ascending(db_returns[return_id].items),
                         read |-> <<>>]>>
    /\ UNCHANGED <<db_loans, db_copy_status, db_returns>>
    /\ RequestFrame

(* process_return lines 201-204: return_item.copy loads the copy of the     *)
(* next item.                                                               *)
ProcessReturnLoadsCopy ==
    /\ At("process_return", "copies")
    /\ req[1].todo # <<>>
    /\ req' = <<[req[1] EXCEPT
                   !.todo = Tail(@),
                   !.read = Put(@, Head(req[1].todo),
                                db_copy_status[Head(req[1].todo)])]>>
    /\ UNCHANGED <<db_loans, db_copy_status, db_returns>>
    /\ RequestFrame

(* process_return lines 207-215: the transaction is completed and the       *)
(* commit writes it and the copies' statuses.                               *)
ProcessReturnCommits ==
    /\ At("process_return", "copies")
    /\ req[1].todo = <<>>
    /\ db_copy_status' = CopiesFlushed(req[1].read, "available")
    /\ db_returns' = [db_returns EXCEPT ![req[1].return_id].status = "completed"]
    /\ req' = <<>>
    /\ UNCHANGED db_loans
    /\ RequestFrame

(* A step of process_return. *)
ProcessReturn ==
    \/ ProcessReturnChecks
    \/ ProcessReturnLoadsCopy
    \/ ProcessReturnCommits

(* GET /api/library/loans/overdue, get_overdue_loans lines 84-89: the query *)
(* of the user's active loans past their due date.                          *)
GetOverdueLoansQuery ==
    /\ req = <<>>
    /\ \E current_user \in Users :
          req' = <<[route |-> "get_overdue_loans", pc |-> "commit",
                    loans |-> {l \in DOMAIN db_loans :
                                  /\ db_loans[l].user_id = current_user
                                  /\ db_loans[l].status = "active"
                                  /\ db_loans[l].due_date < clock}]>>
    /\ UNCHANGED <<db_loans, db_copy_status, db_returns>>
    /\ RequestFrame

(* get_overdue_loans lines 92-96: the loans found are set 'overdue' and     *)
(* committed.                                                               *)
GetOverdueLoansCommits ==
    /\ At("get_overdue_loans", "commit")
    /\ db_loans' = [l \in DOMAIN db_loans |->
                       IF l \in req[1].loans
                       THEN [db_loans[l] EXCEPT !.status = "overdue"]
                       ELSE db_loans[l]]
    /\ req' = <<>>
    /\ UNCHANGED <<db_copy_status, db_returns>>
    /\ RequestFrame

(* A step of get_overdue_loans. *)
GetOverdueLoans == GetOverdueLoansQuery \/ GetOverdueLoansCommits

(* Time passes. *)
Tick ==
    /\ clock < MaxTime
    /\ clock' = clock + 1
    /\ UNCHANGED <<is_connected, poll_resp>>
    /\ UNCHANGED engineVars
    /\ UNCHANGED unlockVars
    /\ UNCHANGED lockVars
    /\ UNCHANGED <<msg_log, db_returns, fin_open, req>>

----------------------------------------------------------------------------
(* The engine alone: message delivery, finalization threads, clear; no     *)
(* request of a loan or return route runs.  What is checked on it is about  *)
(* sessions, triggers and threads; what a finalization leaves in the rows   *)
(* while the routes write them is checked on LoanSpec.                      *)
Next ==
    \/ OnMessage
    \/ RunFinalizationThread
    \/ ClearReturnSession
    \/ OnConnect
    \/ OnDisconnect

Spec == Init /\ [][Next]_vars

(* The engine with HTTP clients polling it. *)
PollNext ==
    \/ OnMessageFrom(MaxPollMsgs, PollTopics)
    \/ RunFinalizationThread
    \/ ClearReturnSession
    \/ OnConnect
    \/ OnDisconnect
    \/ GetReturnStatusCall
    \/ GetReturnStatusAnswer

PollSpec == Init /\ [][PollNext]_vars

(* The dispatcher for one device: the event loop runs the requests one     *)
(* after another, however they overlap on the network.                      *)
UnlockSeqNext ==
    \/ RouteUnlockCheck(1, MaxCalls, {1})
    \/ UnlockRead(1)
    \/ UnlockPublish(1)
    \/ UnlockWrite(1)
    \/ Tick
    \/ OnConnect
    \/ OnDisconnect

UnlockSeqSpec == Init /\ [][UnlockSeqNext]_vars

(* The dispatcher called once for any device id. *)
TopicNext ==
    \/ RouteUnlockCheck(1, MaxTopicCalls, 1..MaxDeviceId)
    \/ UnlockRead(1)
    \/ UnlockPublish(1)
    \/ UnlockWrite(1)
    \/ OnConnect
    \/ OnDisconnect

TopicSpec == Init /\ [][TopicNext]_vars

(* The loan and return routes and the engine on one persistence layer. *)
LoanNext ==
    \/ CreateLoan
    \/ ScanReturnBooks
    \/ ProcessReturn
    \/ GetOverdueLoans
    \/ OnMessageOf(MaxLoanMsgs, LoanTopics, LoanPayloads)
    \/ RunFinalizationThread
    \/ OnConnect

LoanSpec == Init /\ [][LoanNext]_vars

(* The engine with every received message traced. *)
TraceNext ==
    \/ OnMessageTraced
    \/ RunFinalizationThread
    \/ ClearReturnSession
    \/ OnConnect
    \/ OnDisconnect

TraceSpec == Init /\ [][TraceNext]_vars

(* The message-delivery thread, the finalization threads and the            *)
(* event-loop thread in a status request, with the lock.                    *)
LockNext ==
    \/ LoopReceive
    \/ LoopAcquire
    \/ LoopRun
    \/ RunFinalizationThread
    \/ \E w \in Workers : PollCall(w)
    \/ \E w \in Workers : PollAcquire(w)
    \/ \E w \in Workers : PollCopy(w)
    \/ \E w \in Workers : PollRead(w)
    \/ LoopOnConnect
    \/ LoopOnDisconnect

LockSpec == Init /\ [][LockNext]_vars

(* Every thread that can take a step is eventually scheduled. *)
LockFairSpec ==
    /\ LockSpec
    /\ WF_vars(LoopAcquire)
    /\ WF_vars(LoopRun)
    /\ WF_vars(RunFinalizationThread)
    /\ \A w \in Workers :
          WF_vars(PollAcquire(w)) /\ WF_vars(PollCopy(w)) /\ WF_vars(PollRead(w))

(* The same threads and the thread that calls disconnect() at shutdown. *)
ShutdownNext ==
    \/ LockNext
    \/ DisconnectAcquire
    \/ DisconnectLoopStop

ShutdownSpec == Init /\ [][ShutdownNext]_vars

(* The engine and the dispatcher in one process, as the application runs    *)
(* them: the network-loop thread, finalization threads and the event-loop   *)
(* thread.                                                                  *)
MixNext ==
    \/ OnMessageOf(MaxMixMsgs, MixTopics, MixPayloads)
    \/ RunFinalizationThread
    \/ ClearReturnSession
    \/ OnConnect
    \/ OnDisconnect
    \/ RouteUnlockCheck(1, MaxMixCalls, Devices)
    \/ UnlockRead(1)
    \/ UnlockPublish(1)
    \/ UnlockWrite(1)

MixSpec == Init /\ [][MixNext]_vars

----------------------------------------------------------------------------
(* Properties *)

Last(s) == s[Len(s)]
Front(s) == SubSeq(s, 1, Len(s) - 1)

OnlyScans(s) == \A i \in 1..Len(s) : s[i].kind = "scan"

(* The history of a device whose session is absent, or is 'scanning' with   *)
(* an empty tag list: nothing, or scans only, the last of them empty.       *)
AbsentOrEmpty(s) == OnlyScans(s) /\ (s = <<>> \/ Last(s).tags = <<>>)

(* C1: within one session lifetime of a device, _process_finalized_return   *)
(* is invoked at most once for it, inline or on a spawned thread.           *)
AtMostOneFinalizationPerLifetime ==
    \A d \in Devices : Len(fin_calls[d]) <= 1

(* C2: once a device's session has been 'completed', no later scan or       *)
(* confirm message, with no clear in between, invokes finalization again.   *)
NoFinalizationAfterCompleted ==
    \A d \in Devices :
        completed_mark[d] # -1 => Len(fin_calls[d]) = completed_mark[d]

(* C3: from no session, [scan(T), confirm] and [confirm, scan(T)] with T    *)
(* non-empty each make exactly one finalization call, and with tags T.      *)
OrderIndependence ==
    \A d \in Devices : \A T \in TagLists \ {<<>>} :
        (\/ life[d] = <<ScanMsg(T), ConfirmMsg>>
         \/ life[d] = <<ConfirmMsg, ScanMsg(T)>>)
        => fin_calls[d] = <<T>>

OrderIndependenceWitness ==
    \E T \in TagLists :
        /\ Len(T) = 2
        /\ life[1] = <<ScanMsg(T), ConfirmMsg>>
        /\ fin_calls[1] = <<T>>
        /\ life[2] = <<ConfirmMsg>>

(* C4: CONFIRM RETURN on an absent session, or on a scanning session with   *)
(* no tags, leaves it 'finalized' with no finalization invoked; the         *)
(* scan([]) after it invokes finalization exactly once, with no tags, and   *)
(* leaves the session 'completed'.                                          *)
EmptyConfirmFirst ==
    \A d \in Devices :
        LET h == life[d] IN
        /\ (Len(h) >= 1 /\ Last(h) = ConfirmMsg /\ AbsentOrEmpty(Front(h)))
             => /\ d \in DOMAIN sessions
                /\ sessions[d].status = "finalized"
                /\ fin_calls[d] = <<>>
        /\ (Len(h) >= 2 /\ Last(h) = ScanMsg(<<>>) /\ Last(Front(h)) = ConfirmMsg
                /\ AbsentOrEmpty(Front(Front(h))))
             => /\ d \in DOMAIN sessions
                /\ sessions[d].status = "completed"
                /\ sessions[d].epc_tags = <<>>
                /\ fin_calls[d] = << <<>> >>

EmptyConfirmFirstWitness ==
    /\ life[1] = <<ScanMsg(<<>>), ConfirmMsg, ScanMsg(<<>>)>>
    /\ sessions[1].status = "completed"
    /\ fin_calls[1] = << <<>> >>

(* C5: after an accepted scan message the session's tag list is exactly    *)
(* the list the message carried, in whatever state the session was.        *)
SnapshotReplacement ==
    \A d \in Devices :
        (life[d] # <<>> /\ Last(life[d]).kind = "scan")
        => (d \in DOMAIN sessions /\ sessions[d].epc_tags = Last(life[d]).tags)

SnapshotReplacementWitness ==
    /\ life[1] = <<ScanMsg(<<"E1", "E2">>), ScanMsg(<<"X">>)>>
    /\ sessions[1].epc_tags = <<"X">>

(* A finished call that met no transport failure. *)
TransportOk(e) == e.outcome \in {"published", "suppressed"}

(* A finished call that found the transport down or whose publish failed. *)
Failed(e) == e.outcome \in {"not_connected", "publish_failed"}

(* After a failed call, the next call for the same device is not suppressed. *)
NextCallNotSuppressed ==
    \A j, k \in 1..Len(unlock_log) :
        (/\ j < k
         /\ Failed(unlock_log[j])
         /\ unlock_log[k].box = unlock_log[j].box
         /\ \A m \in (j + 1)..(k - 1) : unlock_log[m].box # unlock_log[j].box)
        => unlock_log[k].outcome # "suppressed"

(* The step in which a call ends as failed. *)
FailedSendStep ==
    /\ Len(unlock_log') = Len(unlock_log) + 1
    /\ Failed(Last(unlock_log'))

(* C6: of sendUnlock calls made one after another for one device, a call    *)
(* less than the cooldown window after a published one publishes nothing,   *)
(* and a call is suppressed only by a publish less than a window before it: *)
(* once the window has elapsed since the last publish, the call publishes.  *)
CooldownSuppression ==
    \A j \in 1..Len(unlock_log) :
        LET e == unlock_log[j]
            recent == {i \in 1..(j - 1) :
                         /\ unlock_log[i].box = e.box
                         /\ unlock_log[i].outcome = "published"
                         /\ e.now - unlock_log[i].now < UnlockCooldownSeconds}
        IN /\ recent # {} => e.outcome # "published"
           /\ (recent = {} /\ TransportOk(e)) => e.outcome = "published"

CooldownSuppressionWitness ==
    /\ Len(unlock_log) = 3
    /\ \A i \in 1..3 : unlock_log[i].box = 1
    /\ unlock_log[1].outcome = "published"
    /\ unlock_log[2].outcome = "suppressed"
    /\ unlock_log[2].now - unlock_log[1].now < UnlockCooldownSeconds
    /\ unlock_log[3].outcome = "published"
    /\ unlock_log[3].now - unlock_log[1].now >= UnlockCooldownSeconds
    /\ Len(publishes) = 2

PollIdleNeverError ==
    (poll_resp.code # 0 /\ ~poll_resp.had_session)
    => /\ poll_resp.code = 200
       /\ poll_resp.status = "idle"
       /\ poll_resp.epc_tags = <<>>
       /\ poll_resp.books = {}

(* C9: a finalization whose tags match a copy and also hold a tag on no     *)
(* copy commits and leaves every matched copy 'returned'; taken here only   *)
(* for the finalizations with the device's return-box record existing and   *)
(* no persistence call failing, the ones no other abort ends.               *)
UnmatchedTagTolerated ==
    \A i \in 1..Len(fin_runs) :
        LET r == fin_runs[i] IN
        (/\ MatchedCopies(r.tags) # {}
         /\ \E k \in 1..Len(r.tags) : \A c \in CopyIds : BookEpc(c) # r.tags[k]
         /\ r.box \in db_boxes
         /\ r.persist_ok)
        => /\ r.result = "committed"
           /\ \A c \in MatchedCopies(r.tags) : r.copies[c] = "returned"

(* C10: a sendUnlock call that finds the transport disconnected, or whose   *)
(* publish fails, leaves the device's cooldown record as it was, and the    *)
(* next sendUnlock for that device is not suppressed.                       *)
FailedPublishKeepsCooldown ==
    /\ []NextCallNotSuppressed
    /\ [][FailedSendStep => last_unlock_times' = last_unlock_times]_vars

FailedPublishKeepsCooldownWitness ==
    /\ Len(unlock_log) = 3
    /\ \A i \in 1..3 : unlock_log[i].box = 1
    /\ unlock_log[1].outcome = "not_connected"
    /\ unlock_log[2].outcome = "publish_failed"
    /\ unlock_log[3].outcome = "published"
    /\ unlock_log[3].now = unlock_log[1].now
    /\ last_unlock_times[1] = unlock_log[3].now

(* C11: an unlock request whose publish did not happen because the          *)
(* transport was down or the publish failed, also after the route's         *)
(* connectivity check passed, is answered 503 and never as a sent command.  *)
UnlockFailureReported503 ==
    \A i \in 1..Len(unlock_log) :
        Failed(unlock_log[i]) => unlock_log[i].http.code = 503

(* C12: the answer to an unlock request the cooldown suppressed differs     *)
(* from the answer to a request for the same device that was published.     *)
SuppressedReportedIgnored ==
    \A i, j \in 1..Len(unlock_log) :
        (/\ unlock_log[i].outcome = "suppressed"
         /\ unlock_log[j].outcome = "published"
         /\ unlock_log[i].box = unlock_log[j].box)
        => unlock_log[i].http # unlock_log[j].http

(* The device of the message whose handler is in its finalization. *)
InHandlerDevice(open) == TopicId(open.loop[1].topic).value

(* The step is a scan or confirm message, a clear, a finalization (its end  *)
(* or a step on the way) or a step of a sendUnlock call for device a.       *)
StepFor(a) ==
    \/ life'[a] # life[a]
    \/ Len(fin_runs') = Len(fin_runs) + 1 /\ Last(fin_runs').box = a
    \/ /\ fin_open'.loop # fin_open.loop
       /\ \/ fin_open.loop # <<>> /\ InHandlerDevice(fin_open) = a
          \/ fin_open'.loop # <<>> /\ InHandlerDevice(fin_open') = a
    \/ /\ fin_open'.threads # fin_open.threads
       /\ \E i \in 1..Len(threads) : threads[i].box = a
    \/ \E w \in Workers :
          /\ callers'[w] # callers[w]
          /\ a = (IF callers[w].pc = "idle" THEN callers'[w].box ELSE callers[w].box)

(* The step leaves the session and the cooldown record of device b alone.   *)
DeviceUntouched(b) ==
    /\ (b \in DOMAIN sessions') = (b \in DOMAIN sessions)
    /\ b \in DOMAIN sessions => sessions'[b] = sessions[b]
    /\ (b \in DOMAIN last_unlock_times') = (b \in DOMAIN last_unlock_times)
    /\ b \in DOMAIN last_unlock_times => last_unlock_times'[b] = last_unlock_times[b]

(* C13: a scan, a confirm, a finalization, a clear or a sendUnlock step for *)
(* device A leaves the session (existence, state, tags) and the cooldown    *)
(* record of every other device B unchanged.                                *)
PerDeviceIndependence ==
    [][\A a \in Devices : StepFor(a) =>
          \A b \in Devices \ {a} : DeviceUntouched(b)]_vars

(* Device 2 has a session with tags and a cooldown record while the        *)
(* handler of a scan for device 1 is in its finalization and a sendUnlock   *)
(* call for device 1 is between its read and its publish; a finalization    *)
(* for device 1 has ended before, and device 1 has no cooldown record.      *)
PerDeviceIndependenceWitness ==
    /\ 2 \in DOMAIN sessions
    /\ sessions[2].status = "scanning"
    /\ sessions[2].epc_tags = <<"E1", "E2">>
    /\ 2 \in DOMAIN last_unlock_times
    /\ fin_open.loop # <<>>
    /\ InHandlerDevice(fin_open) = 1
    /\ sessions[1].status = "finalized"
    /\ callers[1].pc = "read"
    /\ callers[1].box = 1
    /\ 1 \notin DOMAIN last_unlock_times

(* A device with no session: a poll finds none, and the first message       *)
(* handled for it makes the session a device that never had one gets.       *)
FreshWhenAbsent ==
    \A d \in Devices :
        /\ d \notin DOMAIN sessions <=> life[d] = <<>>
        /\ d \notin DOMAIN sessions
              => \A db \in QueryOutcomes : ~ServiceReturnStatus(d, db).found
        /\ \A T \in TagLists :
              life[d] = <<ScanMsg(T)>>
              => /\ sessions[d].status = "scanning"
                 /\ sessions[d].epc_tags = T
                 /\ fin_calls[d] = <<>>
        /\ life[d] = <<ConfirmMsg>>
              => /\ sessions[d].status = "finalized"
                 /\ sessions[d].epc_tags = <<>>
                 /\ fin_calls[d] = <<>>

(* A step that removes the session of d is clear_return_session(d). *)
RemovedOnlyByClear ==
    \A d \in Devices :
        (d \in DOMAIN sessions /\ d \notin DOMAIN sessions')
        => ClearReturnSessionFor(d)

(* clear_return_session(d) with no session for d changes nothing. *)
ClearAbsentIsNoOp ==
    \A d \in Devices :
        (d \notin DOMAIN sessions /\ ClearReturnSessionFor(d)) => UNCHANGED vars

(* C14: only clear removes a session (no scan, confirm, poll or             *)
(* finalization does); after clear(d) a poll finds no session and the next  *)
(* scan makes a fresh 'scanning' session, the next confirm a 'finalized'    *)
(* one, as for a device that never had one; clear with no session changes   *)
(* nothing.                                                                 *)
ClearSemantics ==
    /\ []FreshWhenAbsent
    /\ [][RemovedOnlyByClear /\ ClearAbsentIsNoOp]_vars

ClearSemanticsWitness ==
    /\ nmsgs = 2
    /\ ever_created = {1}
    /\ life[1] = <<ConfirmMsg>>
    /\ sessions[1].status = "finalized"
    /\ sessions[1].epc_tags = <<>>
    /\ fin_calls[1] = <<>>
    /\ poll_resp.code = 200 /\ poll_resp.box = 1 /\ poll_resp.status = "idle"

(* A thread leaves its wait for the lock only by taking the lock. *)
WaitEndsHolding ==
    /\ (loop = "waiting" /\ loop' # "waiting") => lock' = LoopThread
    /\ \A w \in Workers :
          (pollers[w].pc = "waiting" /\ pollers'[w].pc # "waiting") => lock' = w

(* C15: with the message-delivery thread, finalizations and polling         *)
(* requests interleaved in any way, a thread that asks for the session      *)
(* lock gets it, every handler and polling call completes, and every        *)
(* finalization thread runs to its end.                                     *)
NoDeadlock ==
    /\ (loop = "waiting") ~> (lock = LoopThread)
    /\ []<>(loop = "idle")
    /\ \A w \in Workers : []<>(pollers[w].pc = "idle")
    /\ []<>(threads = <<>>)
    /\ [][WaitEndsHolding]_vars

NoDeadlockWitness ==
    /\ lock = 1
    /\ loop = "waiting"
    /\ 1 \in DOMAIN sessions
    /\ sessions[1].status = "finalized"
    /\ pollers[1] = [pc |-> "holding", box |-> 1]

(* The step in which a CONFIRM RETURN, or a scan with tag list X, for       *)
(* device d is handled.                                                     *)
ConfirmStep(d) == life'[d] = Append(life[d], ConfirmMsg)

ScanStep(d, X) == life'[d] = Append(life[d], ScanMsg(X))

(* C16: after a CONFIRM RETURN handled while the session was 'scanning'     *)
(* with a non-empty tag list, the session is 'completed' and exactly one    *)
(* finalization was started, with the tags the session held.                *)
ConfirmOnScanningCompletes ==
    \A d \in Devices :
        LET h == life[d] IN
        (/\ Len(h) >= 2
         /\ Last(h) = ConfirmMsg
         /\ OnlyScans(Front(h))
         /\ Last(Front(h)).tags # <<>>)
        => /\ sessions[d].status = "completed"
           /\ fin_calls[d] = <<Last(Front(h)).tags>>

(* C17: a scan with tag list X handled while the session is 'finalized'     *)
(* sets the session's tags to X, makes it 'completed', and runs             *)
(* finalization with exactly X.                                             *)
ScanWhilePendingFinalizes ==
    [][\A d \in Devices : \A X \in TagLists :
         (/\ ScanStep(d, X)
          /\ d \in DOMAIN sessions
          /\ sessions[d].status = "finalized")
         => /\ sessions'[d].epc_tags = X
            /\ sessions'[d].status = "completed"
            /\ fin_calls'[d] = Append(fin_calls[d], X)
            /\ Len(fin_runs') = Len(fin_runs) + 1
            /\ Front(fin_runs') = fin_runs
            /\ Last(fin_runs').box = d
            /\ Last(fin_runs').tags = X]_vars

ScanWhilePendingFinalizesWitness ==
    /\ life[1] = <<ScanMsg(<<"E1">>), ConfirmMsg, ScanMsg(<<"E2", "X">>)>>
    /\ sessions[1].status = "completed"
    /\ sessions[1].epc_tags = <<"E2", "X">>
    /\ fin_calls[1] = << <<"E1">>, <<"E2", "X">> >>
    /\ fin_runs # <<>>
    /\ Last(fin_runs).tags = <<"E2", "X">>
    /\ Last(fin_runs).box = 1

(* C18: a CONFIRM RETURN handled while the session is 'finalized' or        *)
(* 'completed' leaves its state and tags as they were and starts no         *)
(* finalization.                                                            *)
DuplicateConfirmNoOp ==
    [][\A d \in Devices :
         (/\ ConfirmStep(d)
          /\ d \in DOMAIN sessions
          /\ sessions[d].status \in {"finalized", "completed"})
         => /\ sessions'[d].status = sessions[d].status
            /\ sessions'[d].epc_tags = sessions[d].epc_tags
            /\ fin_calls'[d] = fin_calls[d]
            /\ threads' = threads]_vars

(* C19: a scan with tag list X handled while the session is 'completed'     *)
(* sets the session's tags to X, leaves it 'completed', and changes no      *)
(* copy or loan record: no finalization runs or is started.                 *)
ScanWhileCompletedDisplayOnly ==
    [][\A d \in Devices : \A X \in TagLists :
         (/\ ScanStep(d, X)
          /\ d \in DOMAIN sessions
          /\ sessions[d].status = "completed")
         => /\ sessions'[d].epc_tags = X
            /\ sessions'[d].status = "completed"
            /\ db_copy_status' = db_copy_status
            /\ db_loans' = db_loans
            /\ fin_calls'[d] = fin_calls[d]
            /\ fin_runs' = fin_runs
            /\ threads' = threads]_vars

ScanWhileCompletedDisplayOnlyWitness ==
    /\ life[1] = <<ConfirmMsg, ScanMsg(<<>>), ScanMsg(<<"E1">>)>>
    /\ sessions[1].status = "completed"
    /\ sessions[1].epc_tags = <<"E1">>
    /\ fin_calls[1] = << <<>> >>
    /\ db_copy_status[1] = "checked_out"
    /\ db_loans[1].status = "active"

(* C20: a session that has handled only scans since it was created or       *)
(* cleared is 'scanning', and finalization is invoked for a device only     *)
(* after a CONFIRM RETURN for it in the current session lifetime.           *)
ScansAloneNeverFinalize ==
    \A d \in Devices :
        /\ (life[d] # <<>> /\ OnlyScans(life[d]))
             => /\ sessions[d].status = "scanning"
                /\ fin_calls[d] = <<>>
        /\ fin_calls[d] # <<>>
             => \E i \in 1..Len(life[d]) : life[d][i] = ConfirmMsg

ScansAloneNeverFinalizeWitness ==
    /\ life[1] = <<ScanMsg(<<"E1">>), ScanMsg(<<"E1", "E2">>), ScanMsg(<<"E1">>)>>
    /\ sessions[1].status = "scanning"
    /\ fin_calls[1] = <<>>
    /\ fin_runs = <<>>
    /\ db_copy_status[1] = "checked_out"

(* C21: finalization never runs on the message-delivery thread nor under    *)
(* the session lock: the step that executes a finalization is no step of    *)
(* the network-loop thread and is not taken by the holder of the lock.      *)
FinalizationOffDeliveryThread ==
    [][Len(fin_runs') > Len(fin_runs) => (loop' = loop /\ lock' = lock)]_vars

(* C22: a polling call does not hold the session lock during its book       *)
(* query, so a poll in progress never keeps a handler waiting.              *)
PollReadsUnlocked ==
    \A w \in Workers : pollers[w].pc = "reading" => lock # w

(* The step in which on_message receives a message of one of the kinds. *)
Received(kinds) ==
    /\ Len(msg_log') = Len(msg_log) + 1
    /\ Last(msg_log') \in kinds

(* C23: a scan message whose payload is no JSON, or JSON that is neither an *)
(* array of tags nor an object whose "Return" holds one, creates no         *)
(* session and changes no session.                                          *)
MalformedScanDropped ==
    [][Received({"bad_json", "bad_shape", "return_number"})
         => sessions' = sessions]_vars

(* C24: a message on a Return or Command topic whose device identifier is   *)
(* no number creates and changes no session and invokes no finalization;    *)
(* the callback returns normally, so a scan or confirm received after it    *)
(* is handled.                                                              *)
UnparseableIdDropped ==
    [][/\ Received({"bad_id_return", "bad_id_command"})
            => UNCHANGED engineVars
       /\ Received({"scan", "confirm"})
            => nmsgs' = nmsgs + 1 /\ life' # life]_vars

UnparseableIdDroppedWitness ==
    /\ msg_log = <<"bad_id_return", "confirm">>
    /\ DOMAIN sessions = {1}
    /\ sessions[1].status = "finalized"
    /\ life[1] = <<ConfirmMsg>>
    /\ life[2] = <<>>
    /\ fin_runs = <<>>

(* C25: a message on a Command topic whose payload is not exactly CONFIRM   *)
(* RETURN, the UNLOCK the service itself publishes included, creates no     *)
(* session, changes no session and triggers no finalization.                *)
OtherCommandsIgnored ==
    [][Received({"unlock_echo", "not_confirm"}) => UNCHANGED engineVars]_vars

OtherCommandsIgnoredWitness ==
    /\ msg_log = <<"scan", "unlock_echo">>
    /\ DOMAIN sessions = {1}
    /\ sessions[1].status = "scanning"
    /\ sessions[1].epc_tags = <<"E1">>
    /\ fin_calls[1] = <<>>
    /\ threads = <<>>

(* The step in which a finalization invoked in the current session          *)
(* lifetime of its device ends with the given result.                       *)
FinalizationEnds(result) ==
    /\ Len(fin_runs') = Len(fin_runs) + 1
    /\ Last(fin_runs').result = result
    /\ Last(fin_runs').tags \in Range(fin_calls'[Last(fin_runs').box])

(* C26: a finalization for a device with no return-box record changes no    *)
(* copy and no loan, and leaves the session 'completed', whether a scan or  *)
(* a confirm started it.                                                    *)
MissingBoxAbortStaysCompleted ==
    [][(FinalizationEnds("no_box") /\ Last(fin_runs').box \notin db_boxes)
         => /\ db_copy_status' = db_copy_status
            /\ db_loans' = db_loans
            /\ sessions'[Last(fin_runs').box].status = "completed"]_vars

(* C27: a finalization in which a persistence call fails leaves every copy  *)
(* and loan as it was, and the session 'completed'.                         *)
FailedFinalizationStaysCompleted ==
    [][FinalizationEnds("rolled_back")
         => /\ db_copy_status' = db_copy_status
            /\ db_loans' = db_loans
            /\ sessions'[Last(fin_runs').box].status = "completed"]_vars

(* C28: a finalization with tags T that commits leaves every copy whose     *)
(* tag is in T 'returned', with or without an active loan; the active loan  *)
(* of such a copy gets its return date, status 'returned' and fine 0;       *)
(* every other copy and every other loan is as before.                      *)
CommitEffect ==
    [][Len(fin_runs') = Len(fin_runs) + 1 /\ Last(fin_runs').result = "committed"
         => LET T == Last(fin_runs').tags IN
            /\ \A c \in CopyIds :
                 db_copy_status'[c] =
                    IF BookEpc(c) \in Range(T) THEN "returned" ELSE db_copy_status[c]
            /\ \A l \in DOMAIN db_loans :
                 IF BookEpc(db_loans[l].copy_id) \in Range(T)
                    /\ db_loans[l].status = "active"
                 THEN /\ db_loans'[l].status = "returned"
                      /\ db_loans'[l].return_date = clock
                      /\ db_loans'[l].fine_amount = 0
                      /\ db_loans'[l].copy_id = db_loans[l].copy_id
                      /\ db_loans'[l].user_id = db_loans[l].user_id
                 ELSE db_loans'[l] = db_loans[l]]_vars

(* C29: the tags of a finalization are fixed when it is triggered: a        *)
(* pending finalization keeps its tags through every scan and clear, and    *)
(* when it runs it works on those tags, whatever the session holds then.    *)
FinalizationTagsFixed ==
    [][\/ /\ Len(threads') >= Len(threads)
          /\ SubSeq(threads', 1, Len(threads)) = threads
       \/ /\ Len(fin_runs') = Len(fin_runs) + 1
          /\ \E i \in 1..Len(threads) :
                /\ threads' = Without(threads, i)
                /\ Last(fin_runs').box = threads[i].box
                /\ Last(fin_runs').tags = threads[i].tags]_vars

FinalizationTagsFixedWitness ==
    /\ life[1] = <<ScanMsg(<<"E1">>), ConfirmMsg, ScanMsg(<<"X">>)>>
    /\ sessions[1].epc_tags = <<"X">>
    /\ threads = <<>>
    /\ Len(fin_runs) = 2
    /\ fin_runs[1].tags = <<"X">>
    /\ fin_runs[2].tags = <<"E1">>
    /\ fin_runs[2].result = "committed"
    /\ db_copy_status[1] = "returned"

(* The time of the last published call for device d in the log, or NULL. *)
LastPublishedAt(d) ==
    LET P == {i \in 1..Len(unlock_log) :
                 unlock_log[i].box = d /\ unlock_log[i].outcome = "published"}
    IN IF P = {} THEN NULL
       ELSE unlock_log[CHOOSE i \in P : \A j \in P : j <= i].now

(* C30: the cooldown record of a device changes only in the step that ends  *)
(* a published call for it, and is the time of the device's last published  *)
(* call; suppressed calls leave it alone, so a call one window after the    *)
(* last publish is not suppressed, however many were suppressed in between. *)
CooldownOnlyOnPublish ==
    /\ [](\A d \in Devices : Get(last_unlock_times, d) = LastPublishedAt(d))
    /\ [](\A k \in 1..Len(unlock_log) :
            unlock_log[k].outcome = "suppressed"
            => \E i \in 1..(k - 1) :
                  /\ unlock_log[i].box = unlock_log[k].box
                  /\ unlock_log[i].outcome = "published"
                  /\ unlock_log[k].now - unlock_log[i].now < UnlockCooldownSeconds)
    /\ [][\A d \in Devices :
            Get(last_unlock_times', d) # Get(last_unlock_times, d)
            => /\ Len(unlock_log') = Len(unlock_log) + 1
               /\ Last(unlock_log').outcome = "published"
               /\ Last(unlock_log').box = d]_vars

CooldownOnlyOnPublishWitness ==
    /\ Len(unlock_log) = 3
    /\ unlock_log[1].outcome = "published" /\ unlock_log[1].now = 0
    /\ unlock_log[2].outcome = "suppressed" /\ unlock_log[2].now = 4
    /\ unlock_log[3].outcome = "published" /\ unlock_log[3].now = 5
    /\ last_unlock_times[1] = 5

----------------------------------------------------------------------------
(* The topic of a device's command messages: the prefix, the two-digit      *)
(* device index, the Command suffix.                                        *)
DeviceCommandTopic(id) ==
    [prefix |-> "ReturnBox", token |-> <<id \div 10, id % 10>>,
     suffix |-> "/Command"]

(* C31: for every device id from 1 to 99, UNLOCK is published on the prefix *)
(* followed by the two-digit device index and the Command suffix, the topic *)
(* on which the device's CONFIRM RETURN arrives, and the inbound parser     *)
(* maps that topic back to the same device id.                              *)
UnlockTopicIsDeviceTopic ==
    \A i \in 1..Len(publishes) :
        LET p == publishes[i] IN
        p.box \in 1..99 =>
            /\ p.topic = DeviceCommandTopic(p.box)
            /\ ParseInt(p.topic.token) = [ok |-> TRUE, value |-> p.box]

----------------------------------------------------------------------------
(* A finalization for device d begins in this step: the confirm handler     *)
(* starts a thread for it, or the scan handler runs one inline.             *)
FinalizationBegins(d) ==
    \/ /\ Len(threads') > Len(threads)
       /\ threads'[Len(threads')].box = d
    \/ /\ Len(fin_runs') > Len(fin_runs)
       /\ threads' = threads
       /\ fin_runs'[Len(fin_runs')].box = d

(* A started finalization thread for device d has not finished. *)
FinalizationInProgress(d) == \E i \in 1..Len(threads) : threads[i].box = d

(* C32: two finalizations for the same device are never in progress at the  *)
(* same time: a finalization spawned by the confirm handler has finished    *)
(* before any other finalization for that device, spawned or inline, begins.*)
OneFinalizationAtATime ==
    [][\A d \in Devices : FinalizationBegins(d) => ~FinalizationInProgress(d)]_vars

----------------------------------------------------------------------------
(* C33: disconnect() always terminates: the service never ends up with      *)
(* disconnect() holding the session lock and waiting for the network-loop   *)
(* thread to stop while that thread, inside a message callback, waits for   *)
(* the lock.                                                                *)
DisconnectTerminates == ~(lock = MainThread /\ loop = "waiting")

----------------------------------------------------------------------------
SessionFields == {"epc_tags", "status", "timestamp"}

(* C34: polling is read-only on the engine: get_return_status, for any      *)
(* device and in any session state, leaves the session map (existence,      *)
(* state, tags and timestamp of every session) and the cooldown records     *)
(* unchanged, and the books it adds to its answer are not stored in the     *)
(* session.                                                                 *)
PollingReadOnly ==
    [][GetReturnStatus =>
         /\ sessions' = sessions
         /\ last_unlock_times' = last_unlock_times
         /\ \A id \in DOMAIN sessions' : DOMAIN sessions'[id] = SessionFields]_vars

PollingReadOnlyWitness ==
    /\ poll_resp.code = 200
    /\ poll_resp.books # {}
    /\ poll_resp.box \in DOMAIN sessions
    /\ poll_resp.epc_tags = sessions[poll_resp.box].epc_tags
    /\ sessions[poll_resp.box].status = "completed"

----------------------------------------------------------------------------
(* No tag of the list is the EPC of a copy record (the empty list included). *)
NoTagOnACopy(tags) ==
    \A k \in 1..Len(tags) : \A c \in CopyIds : BookEpc(c) # tags[k]

(* C35: a finalization invoked with an empty tag list, or with a tag list   *)
(* none of whose tags matches a copy record, changes no copy record and no  *)
(* loan record.                                                             *)
UnmatchedFinalizationChangesNothing ==
    [][(Len(fin_runs') > Len(fin_runs)
        /\ NoTagOnACopy(fin_runs'[Len(fin_runs')].tags))
       => (db_copy_status' = db_copy_status /\ db_loans' = db_loans)]_vars

UnmatchedFinalizationChangesNothingWitness ==
    /\ Len(fin_runs) = 2
    /\ fin_runs[1].tags = <<>>
    /\ fin_runs[2].tags = <<"X">>
    /\ fin_runs[2].box = 1
    /\ fin_runs[2].persist_ok
    /\ db_copy_status[1] = "checked_out"
    /\ db_loans[1].status = "active"

----------------------------------------------------------------------------
OpenLoans(loans, c) ==
    {l \in DOMAIN loans : /\ loans[l].copy_id = c
                          /\ loans[l].status \in {"active", "overdue"}}

(* C36: after a finalization commits for a matched copy, that copy has no   *)
(* loan left in an open status, neither 'active' nor the 'overdue' the      *)
(* overdue-loans query set.                                                 *)
CommittedCopyHasNoOpenLoan ==
    [][(Len(fin_runs') > Len(fin_runs)
        /\ fin_runs'[Len(fin_runs')].result = "committed")
       => \A c \in MatchedCopies(fin_runs'[Len(fin_runs')].tags) :
             /\ db_copy_status'[c] = "returned"
             /\ OpenLoans(db_loans', c) = {}]_vars

(* C37: in every reachable persistence state, under any sequence of         *)
(* create_loan, HTTP scan-return by any user, process_return and MQTT       *)
(* finalization, each book copy has at most one loan with status 'active'.  *)
AtMostOneActiveLoanPerCopy ==
    \A c \in CopyIds : Cardinality(ActiveLoans(db_loans, c)) <= 1

====
